---- MODULE Spec2Model ----
(***************************************************************************)
(* TrustScore: ingestion of x402 payment events, fraud flag aggregation,   *)
(* reputation snapshots and the periodic scheduler sweeps.                 *)
(*                                                                         *)
(* Handlers are atomic actions; what the environment decides (detector     *)
(* results, RPC and database failures, webhook delivery) is drawn with \E. *)
(***************************************************************************)
EXTENDS Integers, Sequences, FiniteSets, TLC

(***************************************************************************)
(* Bounds of the model                                                     *)
(***************************************************************************)
MaxBlocks == 2
MaxTicks == 1
MaxFlags == 2
MaxResolved == 1
MaxSweeps == 2
MaxStatErrors == 2
MaxEventFaults == 1
MaxRunFaults == 1
MaxTimers == 2
MaxRetrying == 2
MaxInFlight == 2

(***************************************************************************)
(* Program constants                                                       *)
(***************************************************************************)
DaySeconds == 86400
defaultScore == 50
minScore == 0
maxScore == 100
maxRetries == 5
windowMs == 900000
maxRequests == 100
monthlyLimit == 10
\* the instants at which Date.now() is read by the rate limiter, in
\* milliseconds: a window's start, its last instant, the first instant
\* after it and the first instant after the window that follows
Instants == <<0, windowMs, windowMs + 1, 2 * windowMs + 2>>
\* 8 days: one tick moves an address across the 7-day recency tier
TickSeconds == 8 * DaySeconds
\* common denominator of the score components: 90 days in seconds / 15
ScoreDen == 518400
\* JavaScript NaN, the value of arithmetic on a missing configuration key
NaN == -1000000

(***************************************************************************)
(* Small helpers                                                           *)
(***************************************************************************)
Min(a, b) == IF a <= b THEN a ELSE b
Max(a, b) == IF a >= b THEN a ELSE b
Range(s) == {s[i] : i \in 1..Len(s)}

RECURSIVE SumSeq(_)
SumSeq(s) == IF s = <<>> THEN 0 ELSE Head(s) + SumSeq(Tail(s))

RECURSIVE SelectSeqBy(_, _)
\* the subsequence of s whose elements are in the set keep
SelectSeqBy(s, keep) ==
    IF s = <<>> THEN <<>>
    ELSE IF Head(s) \in keep THEN <<Head(s)>> \o SelectSeqBy(Tail(s), keep)
         ELSE SelectSeqBy(Tail(s), keep)

\* Math.round: the nearest integer, halves towards +infinity
RoundDiv(num, den) == (2 * num + den) \div (2 * den)

(***************************************************************************)
(* Addresses.  Chain events carry checksummed (mixed-case) addresses; the  *)
(* code lower-cases some of them.                                          *)
(***************************************************************************)
RawAgents == {"A1", "A2"}
RawServices == {"S1", "S2"}
RawAuthorizers == {"FAC", "UNK"}

toLowerCase(a) ==
    CASE a = "A1" -> "a1" [] a = "A2" -> "a2"
      [] a = "S1" -> "s1" [] a = "S2" -> "s2"
      [] a = "FAC" -> "fac" [] a = "UNK" -> "unk"
      [] OTHER -> a

\* the recognized-facilitator list (lower-cased by getAllFacilitators)
BASE_FACILITATORS == <<"FAC">>
getAllFacilitators == [i \in 1..Len(BASE_FACILITATORS) |-> toLowerCase(BASE_FACILITATORS[i])]

\* ethers.formatUnits(value, 6): micro-units to USDC (whole units in this model)
formatUnits(value) == value \div 1000000

(***************************************************************************)
(* State                                                                   *)
(***************************************************************************)
VARIABLES
    now,                \* wall clock, seconds
    chain,              \* the ledger: a sequence of blocks, each with its logs
    transactions,       \* Transaction Store rows, in insertion order
    fraudFlags,         \* fraud_flags rows, in insertion order
    serviceReputation,  \* service_reputation snapshots by address
    agentReputation,    \* agent_reputation snapshots by address
    webhookStats,       \* per registered webhook: delivery bookkeeping
    alerts,             \* sendWebhookAlert calls made, in order
    lastRun,            \* what the last checkServiceForFraud call did
    config,             \* config.blockchain batch settings
    enhanced,           \* EnhancedIndexer fields
    x402,               \* X402Indexer fields
    sweep,              \* the scheduler's two sweeps
    lastRead,           \* what the last read-only call returned
    api                 \* the API middleware: limiter map, usage, nonces, requests

vars == <<now, chain, transactions, fraudFlags, serviceReputation, agentReputation,
          webhookStats, alerts, lastRun, config, enhanced, x402, sweep, lastRead, api>>

Absent == [absent |-> TRUE]

Addresses == {"a1", "a2", "s1", "s2", "A1", "A2", "S1", "S2"}

(***************************************************************************)
(* Transaction Store and flag storage (db/queries.js)                      *)
(***************************************************************************)
StoredHashes(txs) == {txs[i].tx_hash : i \in 1..Len(txs)}

\* a plain INSERT without the uniqueness on tx_hash
saveTransactionAlways(txs, tx) == Append(txs, tx)

\* insertTransactionIfAbsent: a row whose hash is already stored is ignored
saveTransaction(txs, tx) ==
    IF tx.tx_hash \in StoredHashes(txs) THEN txs ELSE Append(txs, tx)

\* insertFraudFlag: always a new unresolved row
saveFraudFlag(flags, flag) ==
    Append(flags, [service_address |-> flag.serviceAddress,
                   flag_type |-> flag.flagType,
                   severity |-> flag.severity,
                   is_resolved |-> FALSE])

\* getFraudFlags(address, includeResolved)
getFraudFlags(flags, address, includeResolved) ==
    SelectSeq(flags, LAMBDA f : f.service_address = address
                                /\ (includeResolved \/ ~f.is_resolved))

\* listAllKnownServiceAddresses / listAllKnownAgentAddresses
getAllServices(txs) == {txs[i].to_address : i \in 1..Len(txs)}
getAllAgents(txs) == {txs[i].from_address : i \in 1..Len(txs)}

(***************************************************************************)
(* Reputation scorers                                                      *)
(***************************************************************************)
\* tiers with 'excellent' starting at 80
TrustLevelFrom80(score) ==
    IF score >= 80 THEN "excellent"
    ELSE IF score >= 70 THEN "high"
    ELSE IF score >= 50 THEN "medium"
    ELSE IF score >= 30 THEN "low"
    ELSE "untrusted"

\* let trustLevel = ...: the tier of a score
TrustLevel(score) ==
    IF score >= 85 THEN "excellent"
    ELSE IF score >= 70 THEN "high"
    ELSE IF score >= 50 THEN "medium"
    ELSE IF score >= 30 THEN "low"
    ELSE "untrusted"

MinOfSet(S) == CHOOSE x \in S : \A y \in S : x <= y
MaxOfSet(S) == CHOOSE x \in S : \A y \in S : x >= y

\* SELECT COUNT(*), SUM(amount), COUNT(DISTINCT from_address), MIN, MAX
\* FROM transactions WHERE to_address = ?
ServiceMetrics(txs, address) ==
    LET rows == SelectSeq(txs, LAMBDA t : t.to_address = address)
        amounts == [i \in 1..Len(rows) |-> rows[i].amount]
        stamps == {rows[i].timestamp : i \in 1..Len(rows)}
    IN [total_transactions |-> Len(rows),
        total_volume |-> SumSeq(amounts),
        unique_payers |-> Cardinality({rows[i].from_address : i \in 1..Len(rows)}),
        first_seen |-> IF rows = <<>> THEN 0 ELSE MinOfSet(stamps),
        last_active |-> IF rows = <<>> THEN 0 ELSE MaxOfSet(stamps)]

\* SELECT ... FROM transactions WHERE from_address = ?
AgentMetrics(txs, address) ==
    LET rows == SelectSeq(txs, LAMBDA t : t.from_address = address)
        amounts == [i \in 1..Len(rows) |-> rows[i].amount]
        stamps == {rows[i].timestamp : i \in 1..Len(rows)}
    IN [total_payments |-> Len(rows),
        total_spent |-> SumSeq(amounts),
        unique_services |-> Cardinality({rows[i].to_address : i \in 1..Len(rows)}),
        first_payment |-> IF rows = <<>> THEN 0 ELSE MinOfSet(stamps),
        last_payment |-> IF rows = <<>> THEN 0 ELSE MaxOfSet(stamps)]

\* a revenue component taken from the mean amount of a transaction
ServiceScorePerTransaction(metrics, active, t) ==
    LET mean == [metrics EXCEPT !.total_volume = @ \div metrics.total_transactions]
        accountAge == t - mean.first_seen
        sinceActive == t - mean.last_active
    IN Max(minScore, Min(maxScore, RoundDiv(
          Min(30 * ScoreDen, 3 * mean.total_transactions * (ScoreDen \div 10))
          + Min(20 * ScoreDen, mean.total_volume * (ScoreDen \div 50))
          + Min(15 * ScoreDen, 3 * mean.unique_payers * (ScoreDen \div 10))
          + Min(15 * ScoreDen, accountAge)
          + ((IF sinceActive < 7 * DaySeconds THEN 10
              ELSE IF sinceActive < 30 * DaySeconds THEN 5 ELSE 0)
             - SumSeq([i \in 1..Len(active) |-> active[i].severity * 3])) * ScoreDen,
          ScoreDen)))

\* SCORING ALGORITHM of the service scorer: the five components and the
\* penalties are summed over ScoreDen, then rounded and clamped
ServiceScore(metrics, active, t) ==
    LET accountAge == t - metrics.first_seen
        sinceActive == t - metrics.last_active
        volumeScore == Min(30 * ScoreDen, 3 * metrics.total_transactions * (ScoreDen \div 10))
        revenueScore == Min(20 * ScoreDen, metrics.total_volume * (ScoreDen \div 50))
        diversityScore == Min(15 * ScoreDen, 3 * metrics.unique_payers * (ScoreDen \div 10))
        ageScore == Min(15 * ScoreDen, accountAge)
        activityScore == IF sinceActive < 7 * DaySeconds THEN 10
                         ELSE IF sinceActive < 30 * DaySeconds THEN 5 ELSE 0
        penalty == SumSeq([i \in 1..Len(active) |-> active[i].severity * 3])
        raw == volumeScore + revenueScore + diversityScore + ageScore
               + (activityScore - penalty) * ScoreDen
    IN Max(minScore, Min(maxScore, RoundDiv(raw, ScoreDen)))

\* a scorer without the neutral default: an address without transactions
\* goes through the formula as if it had one
ServiceSnapshotNoDefault(address, metrics, active, t) ==
    LET atLeastOne == [metrics EXCEPT !.total_transactions = Max(1, @)]
        score == ServiceScore(atLeastOne, active, t)
    IN [address |-> address, reputationScore |-> score,
        trustLevel |-> TrustLevel(score), badges |-> <<>>,
        total |-> metrics.total_transactions, volume |-> metrics.total_volume,
        unique |-> metrics.unique_payers,
        accountAgeDays |-> (t - metrics.first_seen) \div DaySeconds,
        daysSinceLastActive |-> (t - metrics.last_active) \div DaySeconds,
        activeFraudFlags |-> Len(active), saved |-> TRUE]

\* calculateServiceReputation once the metrics query and getFraudFlags have
\* answered.  A service without transactions gets the neutral snapshot, which
\* is returned and not saved (its daysSinceLastActive is null, written -1).
ServiceSnapshot(address, metrics, active, t) ==
    IF metrics.total_transactions = 0
    THEN [address |-> address, reputationScore |-> defaultScore,
          trustLevel |-> "medium", badges |-> <<"NEW">>,
          total |-> 0, volume |-> 0, unique |-> 0,
          accountAgeDays |-> 0, daysSinceLastActive |-> -1,
          activeFraudFlags |-> 0, saved |-> FALSE]
    ELSE LET score == ServiceScore(metrics, active, t)
             accountAge == t - metrics.first_seen
         IN [address |-> address, reputationScore |-> score,
             trustLevel |-> TrustLevel(score),
             badges |-> (IF score >= 85 THEN <<"VERIFIED">> ELSE <<>>)
                        \o (IF score >= 70 THEN <<"TRUSTED">> ELSE <<>>)
                        \o (IF accountAge >= 90 * DaySeconds THEN <<"ESTABLISHED">> ELSE <<>>)
                        \o (IF metrics.total_transactions >= 1000 THEN <<"HIGH_VOLUME">> ELSE <<>>)
                        \o (IF Len(active) = 0 /\ accountAge >= 30 * DaySeconds
                            THEN <<"CLEAN">> ELSE <<>>)
                        \o (IF accountAge < 7 * DaySeconds THEN <<"NEW">> ELSE <<>>),
             total |-> metrics.total_transactions,
             volume |-> metrics.total_volume,
             unique |-> metrics.unique_payers,
             accountAgeDays |-> accountAge \div DaySeconds,
             daysSinceLastActive |-> (t - metrics.last_active) \div DaySeconds,
             activeFraudFlags |-> Len(active), saved |-> TRUE]

\* the snapshot calculateServiceReputation returns (and saves when the
\* address has transactions)
calculateServiceReputation(txs, flags, t, serviceAddress) ==
    ServiceSnapshot(toLowerCase(serviceAddress),
                    ServiceMetrics(txs, toLowerCase(serviceAddress)),
                    getFraudFlags(flags, toLowerCase(serviceAddress), FALSE), t)

\* paymentReliability: 100, 90, 75 or 50 by the average number of days
\* between payments (accountAgeDays / total_payments)
PaymentReliability(metrics, t) ==
    IF t - metrics.first_payment < metrics.total_payments * DaySeconds THEN 100
    ELSE IF t - metrics.first_payment < 7 * metrics.total_payments * DaySeconds THEN 90
    ELSE IF t - metrics.first_payment < 30 * metrics.total_payments * DaySeconds THEN 75
    ELSE 50

\* the agent scored by the service algorithm over its payer-side fields
AgentScoreAsService(metrics, t) ==
    ServiceScore([total_transactions |-> metrics.total_payments,
                  total_volume |-> metrics.total_spent,
                  unique_payers |-> metrics.unique_services,
                  first_seen |-> metrics.first_payment,
                  last_active |-> metrics.last_payment], <<>>, t)

\* SCORING ALGORITHM of the agent scorer, summed over ScoreDen, then rounded
\* and clamped
AgentScore(metrics, t) ==
    LET accountAge == t - metrics.first_payment
        sinceLast == t - metrics.last_payment
        countScore == Min(25 * ScoreDen, metrics.total_payments * (ScoreDen \div 4))
        spentScore == Min(20 * ScoreDen, metrics.total_spent * (ScoreDen \div 50))
        diversityScore == Min(15 * ScoreDen, 3 * metrics.unique_services * (ScoreDen \div 4))
        ageScore == Min(15 * ScoreDen, accountAge)
        activityScore == IF sinceLast < 7 * DaySeconds THEN 15
                         ELSE IF sinceLast < 30 * DaySeconds THEN 10 ELSE 5
        \* (paymentReliability / 100) * 10
        consistency == PaymentReliability(metrics, t) * (ScoreDen \div 10)
        raw == countScore + spentScore + diversityScore + ageScore
               + activityScore * ScoreDen + consistency
    IN Max(minScore, Min(maxScore, RoundDiv(raw, ScoreDen)))

\* calculateAgentReputation once the metrics query has answered.  An agent
\* without payments gets the neutral snapshot, which is returned and not
\* saved (its daysSinceLastPayment is null, written -1).
AgentSnapshot(address, metrics, t) ==
    IF metrics.total_payments = 0
    THEN [address |-> address, reputationScore |-> defaultScore,
          trustLevel |-> "medium", badges |-> <<"NEW">>,
          total |-> 0, volume |-> 0, unique |-> 0,
          accountAgeDays |-> 0, daysSinceLastPayment |-> -1,
          paymentReliability |-> 100, disputeCount |-> 0, saved |-> FALSE]
    ELSE LET score == AgentScore(metrics, t)
             accountAge == t - metrics.first_payment
         IN [address |-> address, reputationScore |-> score,
             trustLevel |-> TrustLevel(score),
             badges |-> (IF score >= 85 THEN <<"VERIFIED">> ELSE <<>>)
                        \o (IF score >= 70 THEN <<"RELIABLE">> ELSE <<>>)
                        \o (IF accountAge >= 90 * DaySeconds THEN <<"EXPERIENCED">> ELSE <<>>)
                        \o (IF metrics.total_payments >= 500 THEN <<"ACTIVE">> ELSE <<>>)
                        \o (IF accountAge < 7 * DaySeconds THEN <<"NEW">> ELSE <<>>),
             total |-> metrics.total_payments,
             volume |-> metrics.total_spent,
             unique |-> metrics.unique_services,
             accountAgeDays |-> accountAge \div DaySeconds,
             daysSinceLastPayment |-> (t - metrics.last_payment) \div DaySeconds,
             paymentReliability |-> PaymentReliability(metrics, t),
             disputeCount |-> 0, saved |-> TRUE]

\* the snapshot calculateAgentReputation returns (and saves when the
\* address has payments)
calculateAgentReputation(txs, t, agentAddress) ==
    AgentSnapshot(toLowerCase(agentAddress),
                  AgentMetrics(txs, toLowerCase(agentAddress)), t)

\* saveServiceReputation / saveAgentReputation: overwrite the snapshot
SaveSnapshot(table, snap) ==
    IF snap.saved THEN [table EXCEPT ![snap.address] = snap] ELSE table

\* a scorer that smooths the new score with the stored one
persistServiceReputationSmoothed(table, txs, flags, t, serviceAddress) ==
    LET snap == calculateServiceReputation(txs, flags, t, serviceAddress)
        old == table[snap.address]
    IN IF snap.saved /\ old # Absent
       THEN [table EXCEPT ![snap.address] =
               [snap EXCEPT !.reputationScore = (old.reputationScore + @) \div 2]]
       ELSE SaveSnapshot(table, snap)

\* the first-writer-wins variant: a stored snapshot is never replaced
persistServiceReputationOnce(table, txs, flags, t, serviceAddress) ==
    IF table[toLowerCase(serviceAddress)] # Absent THEN table
    ELSE SaveSnapshot(table, calculateServiceReputation(txs, flags, t, serviceAddress))

\* the service_reputation table after calculateServiceReputation(address):
\* saveServiceReputation(reputation) overwrites the address's snapshot
persistServiceReputation(table, txs, flags, t, serviceAddress) ==
    SaveSnapshot(table, calculateServiceReputation(txs, flags, t, serviceAddress))

(***************************************************************************)
(* Fraud aggregator (fraud/detector.js) and webhook alerts                 *)
(***************************************************************************)
\* the five basic rules in the order checkServiceForFraud calls them
BasicRules == <<"velocity_abuse", "new_wallet_risk", "wash_trading",
                "volume_spike", "retry_spam">>

\* the fixed severity each basic rule reports
RuleSeverity(type) ==
    CASE type = "velocity_abuse" -> 8
      [] type = "new_wallet_risk" -> 7
      [] type = "wash_trading" -> 9
      [] type = "volume_spike" -> 6
      [] type = "retry_spam" -> 5

\* what one rule call does: no finding, a finding, or an exception
CheckOutcomes == {"none", "detected", "throws"}

\* the rules whose condition the transaction history of the model can meet
\* or whose query can fail; the other rules find nothing
FiringRules == {"velocity_abuse", "retry_spam"}

CheckVectors ==
    {c \in [1..Len(BasicRules) -> CheckOutcomes] :
        \A i \in 1..Len(BasicRules) : BasicRules[i] \notin FiringRules => c[i] = "none"}

\* what the five rules can answer for an address: a rule queries the rows
\* paid to the address and finds nothing, and does not throw, when there are
\* none
RuleVectors(txs, address) ==
    IF \E i \in 1..Len(txs) : txs[i].to_address = address
    THEN CheckVectors
    ELSE {[i \in 1..Len(BasicRules) |-> "none"]}

Positives(c) == {i \in 1..Len(BasicRules) : c[i] = "detected"}
Throwers(c) == {i \in 1..Len(BasicRules) : c[i] = "throws"}
PositiveTypes(c) ==
    SelectSeqBy(BasicRules, {BasicRules[i] : i \in Positives(c)})

\* what the environment does to the handling of one finding:
\*   save        saveFraudFlag throws
\*   lookup      getWebhooks throws
\*   delivery    axios.post fails
\*   triggered   updateWebhookTriggered throws after a successful post
\*   bookkeeping axios.post fails and updateWebhookFailure throws
FaultKinds == {"none", "save", "lookup", "delivery", "triggered", "bookkeeping"}

\* the fault plans of one call: only the handling of a positive finding can
\* fail, and at most MaxRunFaults findings of a call meet a fault
FaultPlans(c) ==
    LET struck == IF Throwers(c) # {} THEN {{}}
                  ELSE {F \in SUBSET Positives(c) : Cardinality(F) <= MaxRunFaults}
    IN {[i \in 1..Len(BasicRules) |-> IF i \in DOMAIN g THEN g[i] ELSE "none"] :
           g \in UNION {[F -> FaultKinds \ {"none"}] : F \in struck}}

\* active webhooks registered per service
RegisteredWebhooks(serviceAddress) ==
    IF serviceAddress = "s1" THEN <<"w1">> ELSE <<>>

WebhookIds == {"w1"}

RECURSIVE DeliverAll(_, _, _)
\* the for loop of sendWebhookAlert over the registered webhooks
DeliverAll(hooks, fault, st) ==
    IF hooks = <<>> \/ st.threw THEN st
    ELSE LET id == Head(hooks)
             next ==
               CASE fault = "delivery" ->
                      [st EXCEPT !.stats[id].failures = @ + 1]
                 [] fault = "triggered" ->
                      [st EXCEPT !.stats[id].failures = @ + 1]
                 [] fault = "bookkeeping" ->
                      [st EXCEPT !.threw = TRUE]
                 [] OTHER ->
                      [st EXCEPT !.stats[id].triggered = @ + 1]
         IN DeliverAll(Tail(hooks), fault, next)

\* sendWebhookAlert(serviceAddress, alert) under the given fault
sendWebhookAlert(serviceAddress, fault, stats) ==
    IF fault = "lookup" THEN [stats |-> stats, threw |-> TRUE]
    ELSE DeliverAll(RegisteredWebhooks(serviceAddress), fault,
                    [stats |-> stats, threw |-> FALSE])

RECURSIVE CollectDetected(_, _, _, _, _)
\* the for loop of checkServiceForFraud from check i on
CollectDetected(serviceAddress, c, faults, i, st) ==
    IF i > Len(BasicRules) \/ st.status = "threw" THEN st
    ELSE IF c[i] # "detected"
    THEN CollectDetected(serviceAddress, c, faults, i + 1, st)
    ELSE
      LET type == BasicRules[i]
          pushed == [st EXCEPT !.result = Append(@, type),
                               !.saveAttempts = Append(@, type)]
      IN IF faults[i] = "save"
         THEN [pushed EXCEPT !.status = "threw", !.cause = "save"]
         ELSE
           LET saved == [pushed EXCEPT
                           !.flags = saveFraudFlag(@, [serviceAddress |-> serviceAddress,
                                                       flagType |-> type,
                                                       severity |-> RuleSeverity(type)]),
                           !.alerts = Append(@, [service |-> serviceAddress, type |-> type])]
               sent == sendWebhookAlert(serviceAddress, faults[i], saved.stats)
               after == [saved EXCEPT !.stats = sent.stats]
           IN IF sent.threw
              THEN [after EXCEPT !.status = "threw", !.cause = "notify"]
              ELSE CollectDetected(serviceAddress, c, faults, i + 1, after)

\* checkServiceForFraud(serviceAddress): the rules are called while the
\* checks array is built, then the loop handles the positive ones
checkServiceForFraud(serviceAddress, c, faults, flags, sentAlerts, stats) ==
    LET start == [flags |-> flags, alerts |-> sentAlerts, stats |-> stats,
                  result |-> <<>>, saveAttempts |-> <<>>,
                  status |-> "returned", cause |-> "none"]
    IN IF Throwers(c) # {}
       THEN [start EXCEPT !.status = "threw", !.cause = "detector"]
       ELSE CollectDetected(serviceAddress, c, faults, 1, start)

\* the record kept of a call: what the rules found and what the call did
RunRecord(serviceAddress, c, faults, before, out) ==
    [service |-> serviceAddress,
     positives |-> PositiveTypes(c),
     detectorThrew |-> Throwers(c) # {},
     faults |-> {faults[i] : i \in Positives(c)} \ {"none"},
     status |-> out.status,
     cause |-> out.cause,
     result |-> IF out.status = "returned" THEN out.result ELSE <<>>,
     saveAttempts |-> out.saveAttempts,
     flagsAdded |-> Len(out.flags) - Len(before.flags),
     alertsAdded |-> Len(out.alerts) - Len(before.alerts)]

\* getFraudScore reading every flag, resolved ones included
getFraudScoreAllFlags(flags, serviceAddress) ==
    LET all == getFraudFlags(flags, serviceAddress, TRUE)
        totalPenalty == SumSeq([i \in 1..Len(all) |-> all[i].severity * 10])
        score == Max(0, 100 - totalPenalty)
    IN IF Len(all) = 0
       THEN [score |-> 100, riskLevel |-> "low", activeFlags |-> 0]
       ELSE [score |-> score,
             riskLevel |-> IF score < 30 THEN "critical"
                           ELSE IF score < 50 THEN "high"
                           ELSE IF score < 70 THEN "medium"
                           ELSE "low",
             activeFlags |-> Len(all)]

\* getFraudScore(serviceAddress)
getFraudScore(flags, serviceAddress) ==
    LET active == getFraudFlags(flags, serviceAddress, FALSE)
        totalPenalty == SumSeq([i \in 1..Len(active) |-> active[i].severity * 10])
        score == Max(0, 100 - totalPenalty)
    IN IF Len(active) = 0
       THEN [score |-> 100, riskLevel |-> "low", activeFlags |-> 0]
       ELSE [score |-> score,
             riskLevel |-> IF score < 30 THEN "critical"
                           ELSE IF score < 50 THEN "high"
                           ELSE IF score < 70 THEN "medium"
                           ELSE "low",
             activeFlags |-> Len(active)]

(***************************************************************************)
(* The ledger                                                              *)
(***************************************************************************)
\* the TransferWithAuthorization logs of the ledger; a malformed log is one
\* parseLog rejects
LogH1 == [transactionHash |-> "h1", from |-> "A1", to |-> "S1", value |-> 5000000,
          authorizer |-> "FAC", malformed |-> FALSE]
LogH3 == [transactionHash |-> "h3", from |-> "A1", to |-> "S2", value |-> 5000000,
          authorizer |-> "UNK", malformed |-> FALSE]
LogH4 == [transactionHash |-> "h4", from |-> "A2", to |-> "S2", value |-> 5000000,
          authorizer |-> "FAC", malformed |-> TRUE]

\* the logs of block n: a malformed log followed by a payment, then the
\* same payment again (re-included after a re-org) with a payment through
\* an unrecognized intermediary, then only that intermediary's payment
LedgerLogs(n) ==
    CASE n = 1 -> <<LogH4, LogH1>>
      [] n = 2 -> <<LogH1, LogH3>>
      [] OTHER -> <<LogH3>>

\* provider.getLogs({fromBlock, toBlock}) when it succeeds: the logs of the
\* blocks in order, each tagged with its block number (block 0, the genesis
\* block, holds no log)
RECURSIVE LogsInRange(_, _, _)
LogsInRange(ch, fromBlock, toBlock) ==
    IF fromBlock > toBlock \/ fromBlock > Len(ch) THEN <<>>
    ELSE (IF fromBlock = 0 THEN <<>>
          ELSE [i \in 1..Len(ch[fromBlock].logs) |->
                   [log |-> ch[fromBlock].logs[i], blockNumber |-> fromBlock]])
         \o LogsInRange(ch, fromBlock + 1, toBlock)

(***************************************************************************)
(* JavaScript arithmetic on a possibly missing number                      *)
(***************************************************************************)
JsLeq(a, b) == a # NaN /\ b # NaN /\ a <= b
JsMin(a, b) == IF a = NaN \/ b = NaN THEN NaN ELSE Min(a, b)
JsAdd(a, b) == IF a = NaN \/ b = NaN THEN NaN ELSE a + b

\* config.blockchain.batchSize / maxBatchSize: absent from config.js
\* (undefined, NaN in arithmetic), or set as the README documents
RepositoryConfig == [batchSize |-> NaN, maxBatchSize |-> NaN]

ConfigChoices == {RepositoryConfig, [batchSize |-> 1, maxBatchSize |-> 2]}

(***************************************************************************)
(* Event processing shared by the indexers                                 *)
(***************************************************************************)
\* what the environment does to the processing of one event:
\*   getBlock    provider.getBlock / event.getBlock fails
\*   save        saveTransaction throws
\*   repAgent    calculateAgentReputation throws
\*   repService  calculateServiceReputation throws
EventFaults == {"none", "getBlock", "save", "repAgent", "repService"}

\* the fault plans for the events of one poll: only an event that is
\* well-formed and from a facilitator of the list reaches a step that the
\* environment can fail, and at most MaxEventFaults events of a poll fail
PollFaultPlans(entries, facilitators, kinds) ==
    LET canFail == {k \in 1..Len(entries) :
                      /\ ~entries[k].log.malformed
                      /\ toLowerCase(entries[k].log.authorizer) \in Range(facilitators)}
        struck == {F \in SUBSET canFail : Cardinality(F) <= MaxEventFaults}
    IN {[k \in 1..Len(entries) |-> IF k \in DOMAIN g THEN g[k] ELSE "none"] :
           g \in UNION {[F -> kinds \ {"none"}] : F \in struck}}

\* updateReputations(agentAddress, serviceAddress): both scorers in turn,
\* any exception is caught and logged
updateReputations(agentAddress, serviceAddress, fault, t, flags, db) ==
    IF fault = "repAgent" THEN db
    ELSE LET a == [db EXCEPT !.arep =
                      SaveSnapshot(@, calculateAgentReputation(db.txs, t, agentAddress))]
         IN IF fault = "repService" THEN a
            ELSE [a EXCEPT !.srep =
                      persistServiceReputation(@, db.txs, flags, t, serviceAddress)]

\* EnhancedIndexer.processTransferWithAuthEvent(log, blockNumber): whatever
\* fails inside is caught, counted and logged
processTransferWithAuthEvent(entry, fault, facilitators, ch, t, flags, st) ==
    LET log == entry.log
        blockNumber == entry.blockNumber
        counted == [st EXCEPT !.k = @ + 1]
        failed == [counted EXCEPT !.stats.errors = @ + 1, !.failedEvents = @ + 1]
    IN IF log.malformed THEN failed
       ELSE
         LET facilitatorAddress == toLowerCase(log.authorizer)
             from == toLowerCase(log.from)
             to == toLowerCase(log.to)
             value == formatUnits(log.value)
         IN IF facilitatorAddress \in Range(facilitators)
            THEN
              LET found == [counted EXCEPT !.stats.facilitatorEventsFound = @ + 1]
                  transactionData ==
                      [tx_hash |-> log.transactionHash, from_address |-> from,
                       to_address |-> to, amount |-> value,
                       block_number |-> blockNumber,
                       timestamp |-> ch[blockNumber].timestamp,
                       facilitator_address |-> facilitatorAddress]
              IN IF fault \in {"getBlock", "save"}
                 THEN [found EXCEPT !.stats.errors = @ + 1, !.failedEvents = @ + 1]
                 ELSE
                   LET saved == [found EXCEPT
                                   !.db.txs = saveTransaction(@, transactionData),
                                   !.stats.transactionsSaved = @ + 1,
                                   !.failedEvents = IF fault = "none" THEN @ ELSE @ + 1]
                   IN [saved EXCEPT
                         !.db = updateReputations(from, to, fault, t, flags, @)]
            ELSE [counted EXCEPT !.stats.errors = @ + 1,
                                 !.unknownFacilitators = @ \cup {facilitatorAddress}]

RECURSIVE ProcessLogsUntilFailure(_, _, _, _, _, _, _)
\* the loop as it would run if processTransferWithAuthEvent rethrew: the
\* first failed event ends it
ProcessLogsUntilFailure(entries, faults, facilitators, ch, t, flags, st) ==
    IF entries = <<>> \/ st.failedEvents > 0 THEN st
    ELSE ProcessLogsUntilFailure(Tail(entries), faults, facilitators, ch, t, flags,
             processTransferWithAuthEvent(Head(entries), faults[st.k + 1],
                                          facilitators, ch, t, flags, st))

RECURSIVE ProcessLogs(_, _, _, _, _, _, _)
\* for (const log of transferWithAuthLogs) await processTransferWithAuthEvent
ProcessLogs(entries, faults, facilitators, ch, t, flags, st) ==
    IF entries = <<>> THEN st
    ELSE ProcessLogs(Tail(entries), faults, facilitators, ch, t, flags,
             processTransferWithAuthEvent(Head(entries), faults[st.k + 1],
                                          facilitators, ch, t, flags, st))

RECURSIVE SingleBlocks(_, _, _, _, _, _, _, _, _)
\* the fallback loop of checkBlockRange over checkSingleBlock
SingleBlocks(blockNum, endBlock, rpc, faults, facilitators, ch, t, flags, st) ==
    IF ~JsLeq(blockNum, endBlock) THEN st
    ELSE LET one ==
               IF rpc.single = "fail"
               THEN [st EXCEPT !.stats.errors = @ + 1]
               ELSE LET found == LogsInRange(ch, blockNum, blockNum)
                    IN ProcessLogs(found, faults, facilitators, ch, t, flags,
                           [st EXCEPT !.stats.totalEventsFound = @ + Len(found)])
         IN SingleBlocks(blockNum + 1, endBlock, rpc, faults, facilitators,
                         ch, t, flags, one)

\* EnhancedIndexer.checkBlockRange(startBlock, endBlock); getLogs rejects a
\* NaN block number
checkBlockRange(startBlock, endBlock, rpc, faults, facilitators, ch, t, flags, st) ==
    LET blocksInRange == JsAdd(JsAdd(endBlock, -startBlock), 1)
    IN IF rpc.batch = "fail" \/ endBlock = NaN
       THEN SingleBlocks(startBlock, endBlock, rpc, faults, facilitators, ch, t, flags,
                         [st EXCEPT !.stats.totalBlocksChecked = JsAdd(@, blocksInRange),
                                    !.stats.errors = @ + 1])
       ELSE LET found == LogsInRange(ch, startBlock, endBlock)
            IN ProcessLogs(found, faults, facilitators, ch, t, flags,
                   [st EXCEPT !.stats.totalBlocksChecked = JsAdd(@, blocksInRange),
                              !.stats.totalEventsFound = @ + Len(found)])

RECURSIVE BatchLoop(_, _, _, _, _, _, _, _, _, _)
\* the while loop of pollForTransactions over the batches
BatchLoop(startBlock, currentBlock, batchSize, rpc, faults, facilitators, ch, t, flags, st) ==
    IF ~JsLeq(startBlock, currentBlock) THEN st
    ELSE LET endBlock == JsMin(JsAdd(JsAdd(startBlock, batchSize), -1), currentBlock)
         IN BatchLoop(JsAdd(endBlock, 1), currentBlock, batchSize, rpc, faults,
                      facilitators, ch, t, flags,
                      checkBlockRange(startBlock, endBlock, rpc, faults,
                                      facilitators, ch, t, flags, st))

\* the body of pollForTransactions once getBlockNumber has answered
pollForTransactions(cfg, lastCheckedBlock, currentBlock, rpc, faults, facilitators, ch, t, flags, st) ==
    LET blocksToCheck == currentBlock - lastCheckedBlock
    IN IF JsLeq(blocksToCheck, cfg.batchSize)
       THEN checkBlockRange(lastCheckedBlock + 1, currentBlock, rpc, faults,
                            facilitators, ch, t, flags, st)
       ELSE BatchLoop(lastCheckedBlock + 1, currentBlock,
                      JsMin(cfg.maxBatchSize, blocksToCheck), rpc, faults,
                      facilitators, ch, t, flags, st)

(***************************************************************************)
(* X402Indexer                                                             *)
(***************************************************************************)
\* isFacilitator is async: a call that is not awaited yields a promise of
\* the answer
isFacilitator(address) ==
    [promise |-> TRUE, value |-> toLowerCase(address) \in Range(getAllFacilitators)]

\* the truth value an if statement gives a JavaScript value: an object
\* (a promise) is always truthy
Truthy(v) == IF v.promise THEN TRUE ELSE v.value

\* X402Indexer.processTransaction(tx): save, then update both reputations;
\* any exception is caught and logged
processTransaction(tx, fault, t, flags, db) ==
    IF fault = "save" THEN db
    ELSE updateReputations(tx.from_address, tx.to_address, fault, t, flags,
                           [db EXCEPT !.txs = saveTransaction(@, tx)])

\* the TransferWithAuthorization callback registered by setupEventListener
onTransferWithAuthorization(entry, fault, ch, t, flags, db) ==
    LET log == entry.log
    IN IF Truthy(isFacilitator(log.authorizer))
       THEN IF fault = "getBlock" THEN db
            ELSE processTransaction(
                     [tx_hash |-> log.transactionHash, from_address |-> log.from,
                      to_address |-> log.to, amount |-> formatUnits(log.value),
                      block_number |-> entry.blockNumber,
                      timestamp |-> ch[entry.blockNumber].timestamp,
                      facilitator_address |-> log.authorizer],
                     fault, t, flags, db)
       ELSE db

\* parseTransferWithAuthEvent(log): null for a log parseLog rejects
parseTransferWithAuthEvent(log) ==
    IF log.malformed THEN [null |-> TRUE]
    ELSE [null |-> FALSE, from |-> toLowerCase(log.from), to |-> toLowerCase(log.to),
          value |-> log.value, authorizer |-> toLowerCase(log.authorizer)]

RECURSIVE X402ProcessLogs(_, _, _, _, _, _, _)
\* the for loop of checkBlockForX402Transactions over the logs of a block;
\* an exception while handling one log is caught and logged
X402ProcessLogs(entries, faults, facilitators, ch, t, flags, st) ==
    IF entries = <<>> THEN st
    ELSE
      LET entry == Head(entries)
          parsed == parseTransferWithAuthEvent(entry.log)
          fault == faults[st.k + 1]
          counted == [st EXCEPT !.k = @ + 1,
                                !.failedEvents = IF parsed.null THEN @ + 1 ELSE @]
          done ==
            IF ~parsed.null /\ parsed.authorizer \in Range(facilitators)
            THEN [counted EXCEPT
                    !.db = processTransaction(
                             [tx_hash |-> entry.log.transactionHash,
                              from_address |-> parsed.from, to_address |-> parsed.to,
                              amount |-> formatUnits(parsed.value),
                              block_number |-> entry.blockNumber,
                              timestamp |-> ch[entry.blockNumber].timestamp,
                              facilitator_address |-> parsed.authorizer],
                             fault, t, flags, @),
                    !.failedEvents = IF fault = "none" THEN @ ELSE @ + 1]
            ELSE counted
      IN X402ProcessLogs(Tail(entries), faults, facilitators, ch, t, flags, done)

\* checkBlockForX402Transactions(blockNumber): a failing getBlock or getLogs
\* is caught and logged
checkBlockForX402Transactions(blockNumber, blockFaults, faults, facilitators, ch, t, flags, st) ==
    IF blockFaults[blockNumber] = "fail" THEN st
    ELSE LET found == LogsInRange(ch, blockNumber, blockNumber)
         IN X402ProcessLogs(found, faults, facilitators, ch, t, flags,
                            [st EXCEPT !.found = @ + Len(found)])

RECURSIVE X402BlockLoop(_, _, _, _, _, _, _, _, _)
\* the for loop of pollForNewTransactions over the new blocks
X402BlockLoop(blockNumber, currentBlock, blockFaults, faults, facilitators, ch, t, flags, st) ==
    IF blockNumber > currentBlock THEN st
    ELSE X402BlockLoop(blockNumber + 1, currentBlock, blockFaults, faults,
                       facilitators, ch, t, flags,
                       checkBlockForX402Transactions(blockNumber, blockFaults, faults,
                                                     facilitators, ch, t, flags, st))

(***************************************************************************)
(* Initial state                                                           *)
(***************************************************************************)
ZeroStats == [totalBlocksChecked |-> 0, totalEventsFound |-> 0,
              facilitatorEventsFound |-> 0, transactionsSaved |-> 0, errors |-> 0]

NoPoll == [found |-> 0, processed |-> 0, failed |-> 0]

NoRun == [service |-> "none", positives |-> <<>>, detectorThrew |-> FALSE,
          faults |-> {}, status |-> "none", cause |-> "none", result |-> <<>>,
          saveAttempts |-> <<>>, flagsAdded |-> 0, alertsAdded |-> 0]

\* runFraudScan: pc is idle, running (in the for loop), blocked (awaiting an
\* evaluation that never settles), done or aborted (the call threw)
NoRead == [call |-> "none"]

IdleScan == [pc |-> "idle", list |-> <<>>, i |-> 1, attempted |-> <<>>,
             failed |-> {}, count |-> 0, runs |-> 0]

\* updateAllScores: pc is idle, services (first loop), agents (second
\* loop), done or aborted (the call threw)
IdleUpdate == [pc |-> "idle", services |-> <<>>, agents |-> <<>>, i |-> 1,
               attemptedServices |-> <<>>, attemptedAgents |-> <<>>,
               failed |-> {}, serviceCount |-> 0, agentCount |-> 0, runs |-> 0]

EnhancedFresh ==
    enhanced = [isRunning |-> FALSE, lastCheckedBlock |-> 0,
                pollingInterval |-> FALSE, facilitators |-> <<>>,
                stats |-> ZeroStats, unknownFacilitators |-> {},
                lastPoll |-> NoPoll, inFlight |-> {}, backfill |-> -1]

X402Fresh ==
    x402 = [isRunning |-> FALSE, eventListener |-> FALSE,
            pollingInterval |-> FALSE, lastCheckedBlock |-> 0,
            retryCount |-> 0, facilitators |-> <<>>, lastPoll |-> NoPoll,
            timers |-> 0, retrying |-> 0]

InitCommon ==
    /\ now = 0
    /\ chain = <<>>
    /\ webhookStats = [w \in WebhookIds |-> [triggered |-> 0, failures |-> 0]]
    /\ alerts = <<>>
    /\ lastRun = NoRun
    /\ EnhancedFresh
    /\ X402Fresh
    /\ sweep = [fraudScan |-> IdleScan, scoreUpdate |-> IdleUpdate]
    /\ lastRead = NoRead
    /\ api = [tick |-> 1, requestCounts |-> [ip \in {"ip1"} |-> Absent],
              passed |-> [i \in DOMAIN Instants |-> 0],
              lastResponse |-> [status |-> 0, handled |-> FALSE],
              usage |-> [w \in {"w1"} |-> 0], used_nonces |-> {},
              inFlight |-> [slot \in 1..MaxInFlight |-> [pc |-> "idle"]],
              served |-> [free |-> 0, paid |-> 0]]

NoSnapshots == [a \in Addresses |-> Absent]

Init ==
    /\ InitCommon
    /\ config \in ConfigChoices
    /\ transactions = <<>>
    /\ fraudFlags = <<>>
    /\ serviceReputation = NoSnapshots
    /\ agentReputation = NoSnapshots

\* stores left by earlier ingestion, for the runs of the scheduler's sweeps
SeededRow(hash, from, to, amount) ==
    [tx_hash |-> hash, from_address |-> from, to_address |-> to, amount |-> amount,
     block_number |-> 1, timestamp |-> 0, facilitator_address |-> "fac"]

SeededStores ==
    { <<SeededRow("h1", "a1", "s1", 5), SeededRow("h2", "a2", "s2", 60)>>,
      <<SeededRow("h1", "a1", "s1", 5), SeededRow("h2", "a2", "s2", 60),
        SeededRow("h5", "a1", "s2", 5)>> }

InitSweep ==
    /\ InitCommon
    /\ config = RepositoryConfig
    /\ transactions \in SeededStores
    /\ fraudFlags = <<>>
    /\ serviceReputation = NoSnapshots
    /\ agentReputation = NoSnapshots

ledgerVars == <<now, chain>>
storeVars == <<transactions, serviceReputation, agentReputation>>
fraudVars == <<fraudFlags, webhookStats, alerts, lastRun>>

(***************************************************************************)
(* The environment: time and the ledger                                    *)
(***************************************************************************)
Tick ==
    /\ now < MaxTicks * TickSeconds
    /\ now' = now + TickSeconds
    /\ UNCHANGED <<chain, storeVars, fraudVars, config, api, lastRead, enhanced, x402, sweep>>

MineBlock ==
    /\ Len(chain) < MaxBlocks
    /\ chain' = Append(chain, [timestamp |-> now, logs |-> LedgerLogs(Len(chain) + 1)])
    /\ UNCHANGED <<now, storeVars, fraudVars, config, api, lastRead, enhanced, x402, sweep>>

(***************************************************************************)
(* EnhancedIndexer handlers                                                *)
(***************************************************************************)
\* scheduler job 3: initialize(), then startIndexing() unless initialize threw
EnhancedInitialize ==
    /\ X402Fresh
    /\ \E rpc \in {"ok", "fail"} :
          enhanced' = [enhanced EXCEPT
                         !.facilitators = getAllFacilitators,
                         !.lastCheckedBlock = IF rpc = "ok" THEN Len(chain) ELSE @]
    /\ UNCHANGED <<ledgerVars, storeVars, fraudVars, config, api, lastRead, x402, sweep>>

EnhancedStartIndexing ==
    /\ X402Fresh
    /\ enhanced' = IF enhanced.isRunning THEN enhanced
                   ELSE [enhanced EXCEPT !.isRunning = TRUE, !.stats = ZeroStats,
                                         !.pollingInterval = TRUE]
    /\ UNCHANGED <<ledgerVars, storeVars, fraudVars, config, api, lastRead, x402, sweep>>

EnhancedStopIndexing ==
    /\ enhanced' = [enhanced EXCEPT !.pollingInterval = FALSE, !.isRunning = FALSE]
    /\ UNCHANGED <<ledgerVars, storeVars, fraudVars, config, api, lastRead, x402, sweep>>

RpcPlans == { [batch |-> "ok", single |-> "ok"],
              [batch |-> "fail", single |-> "ok"],
              [batch |-> "fail", single |-> "fail"] }

\* one firing of the polling timer: pollForTransactions()
EnhancedPoll ==
    /\ enhanced.pollingInterval
    /\ \E head \in {"ok", "fail"} :
          LET currentBlock == Len(chain)
              inRange == LogsInRange(chain, enhanced.lastCheckedBlock + 1, currentBlock)
              start == [db |-> [txs |-> transactions, srep |-> serviceReputation,
                                arep |-> agentReputation],
                        stats |-> enhanced.stats,
                        unknownFacilitators |-> enhanced.unknownFacilitators,
                        k |-> 0, found |-> 0, failedEvents |-> 0]
          IN IF head = "fail"
             THEN /\ enhanced.stats.errors < MaxStatErrors
                  /\ enhanced' = [enhanced EXCEPT !.stats.errors = @ + 1]
                  /\ UNCHANGED storeVars
             ELSE IF currentBlock > enhanced.lastCheckedBlock
             THEN \E rpc \in RpcPlans,
                     faults \in PollFaultPlans(inRange, enhanced.facilitators, EventFaults) :
                    \E out \in {pollForTransactions(config, enhanced.lastCheckedBlock,
                                   currentBlock, rpc, faults, enhanced.facilitators,
                                   chain, now, fraudFlags, start)} :
                       /\ enhanced' = [enhanced EXCEPT
                                         !.lastCheckedBlock = currentBlock,
                                         !.stats = out.stats,
                                         !.unknownFacilitators = out.unknownFacilitators,
                                         !.lastPoll = [found |-> out.stats.totalEventsFound
                                                                 - enhanced.stats.totalEventsFound,
                                                       processed |-> out.k,
                                                       failed |-> out.failedEvents]]
                       /\ transactions' = out.db.txs
                       /\ serviceReputation' = out.db.srep
                       /\ agentReputation' = out.db.arep
             ELSE UNCHANGED <<enhanced, storeVars>>
    /\ UNCHANGED <<ledgerVars, fraudVars, config, api, lastRead, x402, sweep>>

\* backfillBlocks(): getBlockNumber has answered and the scan of the
\* batches is awaited; backfill holds the currentBlock the call read
EnhancedBackfillStart ==
    /\ X402Fresh
    /\ enhanced.backfill = -1
    /\ enhanced.stats.errors < MaxStatErrors
    /\ JsLeq(enhanced.stats.totalBlocksChecked, MaxBlocks)
    /\ enhanced' = [enhanced EXCEPT !.backfill = Len(chain)]
    /\ UNCHANGED <<ledgerVars, storeVars, fraudVars, config, api, lastRead, x402, sweep>>

\* backfillBlocks(blocksToBackfill = 1000): the loop over the batches and
\* the assignment of the cursor that ends the call
EnhancedBackfillFinish ==
    /\ enhanced.backfill # -1
    /\ LET currentBlock == enhanced.backfill
           startBlock == Max(0, currentBlock - 1000)
           inRange == LogsInRange(chain, startBlock, currentBlock)
           start == [db |-> [txs |-> transactions, srep |-> serviceReputation,
                             arep |-> agentReputation],
                     stats |-> enhanced.stats,
                     unknownFacilitators |-> enhanced.unknownFacilitators,
                     k |-> 0, found |-> 0, failedEvents |-> 0]
       IN \E rpc \in RpcPlans,
             faults \in PollFaultPlans(inRange, enhanced.facilitators, EventFaults) :
            \E out \in {BatchLoop(startBlock, currentBlock, config.maxBatchSize,
                                  rpc, faults, enhanced.facilitators, chain, now,
                                  fraudFlags, start)} :
               /\ enhanced' = [enhanced EXCEPT
                                 !.lastCheckedBlock = currentBlock,
                                 !.stats = out.stats,
                                 !.unknownFacilitators = out.unknownFacilitators,
                                 !.backfill = -1]
               /\ transactions' = out.db.txs
               /\ serviceReputation' = out.db.srep
               /\ agentReputation' = out.db.arep
    /\ UNCHANGED <<ledgerVars, fraudVars, config, api, lastRead, x402, sweep>>

(***************************************************************************)
(* X402Indexer handlers                                                    *)
(***************************************************************************)
\* initialize(): loads the facilitators and builds the USDC contract.  The
\* X402Indexer reads no batch setting, so it is explored under the
\* repository's config.js only.
X402Initialize ==
    /\ EnhancedFresh
    /\ config.batchSize = NaN
    /\ x402' = [x402 EXCEPT !.facilitators = getAllFacilitators]
    /\ UNCHANGED <<ledgerVars, storeVars, fraudVars, config, api, lastRead, enhanced, sweep>>

\* startIndexing(), after initialize() has built the contract the listener is
\* registered on: setupEventListener registers the callback, or fails
\* with an error other than 'filter not found', which is only logged
X402StartIndexing ==
    /\ EnhancedFresh
    /\ x402.facilitators # <<>>
    /\ \E setup \in {"ok", "fail"} :
          x402' = IF x402.isRunning THEN x402
                  ELSE [x402 EXCEPT !.isRunning = TRUE,
                                    !.eventListener = (setup = "ok")]
    /\ UNCHANGED <<ledgerVars, storeVars, fraudVars, config, api, lastRead, enhanced, sweep>>

X402StopIndexing ==
    /\ x402' = [x402 EXCEPT !.eventListener = FALSE, !.isRunning = FALSE,
                            !.retryCount = 0]
    /\ UNCHANGED <<ledgerVars, storeVars, fraudVars, config, api, lastRead, enhanced, sweep>>

\* handleProviderError(error) for a 'filter not found' error raised while
\* the provider polls the listener's filter, up to the wait before the retry;
\* retrying counts the calls that are waiting
X402FilterExpired ==
    /\ x402.eventListener
    /\ x402.retrying < MaxRetrying
    /\ x402' = IF x402.retryCount < maxRetries
               THEN [x402 EXCEPT !.retryCount = @ + 1, !.retrying = @ + 1]
               ELSE [x402 EXCEPT !.eventListener = FALSE, !.isRunning = FALSE,
                                 !.retryCount = 0]
    /\ UNCHANGED <<ledgerVars, storeVars, fraudVars, config, api, lastRead, enhanced, sweep>>

\* handleProviderError after the wait: setupEventListener() removes the
\* listener and registers a new one ("ok"), or throws; its own catch hands
\* the error to handleProviderError and it returns normally, so the caller
\* always goes on to retryCount = 0.  A 'filter not found' error thrown by
\* the setup ("filter") starts the next retry inside this call, or stops
\* the indexer once retryCount has reached maxRetries; any other error
\* ("other") is only logged.
X402RetrySetup ==
    /\ x402.retrying > 0
    /\ \E setup \in {"ok", "filter", "other"} :
          x402' = CASE setup = "ok" ->
                         [x402 EXCEPT !.eventListener = TRUE, !.retryCount = 0,
                                      !.retrying = @ - 1]
                    [] setup = "other" ->
                         [x402 EXCEPT !.eventListener = FALSE, !.retryCount = 0,
                                      !.retrying = @ - 1]
                    [] setup = "filter" /\ x402.retryCount < maxRetries ->
                         [x402 EXCEPT !.eventListener = FALSE, !.retryCount = @ + 1]
                    [] OTHER ->
                         [x402 EXCEPT !.eventListener = FALSE, !.isRunning = FALSE,
                                      !.retryCount = 0, !.retrying = @ - 1]
    /\ UNCHANGED <<ledgerVars, storeVars, fraudVars, config, api, lastRead, enhanced, sweep>>

\* startPollingIndexing(), after initialize(): setInterval starts a timer
\* and pollingInterval keeps its handle; timers counts the active timers
X402StartPollingIndexing ==
    /\ EnhancedFresh
    /\ x402.facilitators # <<>>
    /\ x402.isRunning \/ x402.timers < MaxTimers
    /\ \E head \in {"ok", "fail"} :
          x402' = IF x402.isRunning THEN x402
                  ELSE [x402 EXCEPT !.isRunning = TRUE,
                                    !.lastCheckedBlock = IF head = "ok" THEN Len(chain) ELSE 0,
                                    !.pollingInterval = TRUE,
                                    !.timers = @ + 1]
    /\ UNCHANGED <<ledgerVars, storeVars, fraudVars, config, api, lastRead, enhanced, sweep>>

\* stopPollingIndexing(): clearInterval stops the timer whose handle
\* pollingInterval holds
X402StopPollingIndexing ==
    /\ x402' = [x402 EXCEPT !.pollingInterval = FALSE, !.isRunning = FALSE,
                            !.timers = IF x402.pollingInterval THEN @ - 1 ELSE @]
    /\ UNCHANGED <<ledgerVars, storeVars, fraudVars, config, api, lastRead, enhanced, sweep>>

\* one firing of the polling timer: pollForNewTransactions()
X402Poll ==
    /\ x402.timers > 0
    /\ \E head \in {"ok", "fail"} :
          LET currentBlock == Len(chain)
              inRange == LogsInRange(chain, x402.lastCheckedBlock + 1, currentBlock)
              start == [db |-> [txs |-> transactions, srep |-> serviceReputation,
                                arep |-> agentReputation],
                        k |-> 0, found |-> 0, failedEvents |-> 0]
          IN IF head = "ok" /\ currentBlock > x402.lastCheckedBlock
             THEN \E blockFaults \in [(x402.lastCheckedBlock + 1)..currentBlock -> {"ok", "fail"}],
                     faults \in PollFaultPlans(inRange, x402.facilitators,
                                               EventFaults \ {"getBlock"}) :
                    \E out \in {X402BlockLoop(x402.lastCheckedBlock + 1, currentBlock,
                                   blockFaults, faults, x402.facilitators, chain, now,
                                   fraudFlags, start)} :
                       /\ x402' = [x402 EXCEPT
                                     !.lastCheckedBlock = currentBlock,
                                     !.lastPoll = [found |-> out.found, processed |-> out.k,
                                                   failed |-> out.failedEvents]]
                       /\ transactions' = out.db.txs
                       /\ serviceReputation' = out.db.srep
                       /\ agentReputation' = out.db.arep
             ELSE UNCHANGED <<x402, storeVars>>
    /\ UNCHANGED <<ledgerVars, fraudVars, config, api, lastRead, enhanced, sweep>>

\* the provider delivers one TransferWithAuthorization log of the newest
\* block to the listener (a log may be delivered more than once)
X402ListenerEvent ==
    /\ x402.eventListener
    /\ chain # <<>>
    /\ \E b \in {Len(chain)}, fault \in EventFaults :
          \E i \in 1..Len(chain[b].logs) :
             \E out \in {onTransferWithAuthorization(
                             [log |-> chain[b].logs[i], blockNumber |-> b], fault,
                             chain, now, fraudFlags,
                             [txs |-> transactions, srep |-> serviceReputation,
                              arep |-> agentReputation])} :
                /\ ~chain[b].logs[i].malformed
                /\ transactions' = out.txs
                /\ serviceReputation' = out.srep
                /\ agentReputation' = out.arep
    /\ UNCHANGED <<ledgerVars, fraudVars, config, api, lastRead, enhanced, x402, sweep>>

NextIngest ==
    \/ MineBlock
    \/ EnhancedInitialize
    \/ EnhancedStartIndexing
    \/ EnhancedStopIndexing
    \/ EnhancedPoll
    \/ X402Initialize
    \/ X402StartIndexing
    \/ X402StopIndexing
    \/ X402StartPollingIndexing
    \/ X402StopPollingIndexing
    \/ X402Poll
    \/ X402ListenerEvent

SpecIngest == Init /\ [][NextIngest]_vars

\* ingestion together with backfill and the recovery of the listener
SpecLifecycle ==
    Init /\ [][NextIngest \/ EnhancedBackfillStart \/ EnhancedBackfillFinish
                  \/ X402FilterExpired \/ X402RetrySetup]_vars

(***************************************************************************)
(* Fraud aggregator calls and flag resolution                              *)
(***************************************************************************)
ScannedServices == {"s1", "s2"}

ResolvedCount(flags) == Cardinality({i \in 1..Len(flags) : flags[i].is_resolved})

\* one call of checkServiceForFraud(serviceAddress), e.g. from the API
CheckServiceForFraud ==
    /\ \E serviceAddress \in ScannedServices :
       \E c \in RuleVectors(transactions, serviceAddress) :
          /\ Len(fraudFlags) + Cardinality(Positives(c)) <= MaxFlags
          /\ \E faults \in FaultPlans(c) :
                LET before == [flags |-> fraudFlags, alerts |-> alerts]
                    out == checkServiceForFraud(serviceAddress, c, faults, fraudFlags,
                                                alerts, webhookStats)
                IN /\ fraudFlags' = out.flags
                   /\ alerts' = out.alerts
                   /\ webhookStats' = out.stats
                   /\ lastRun' = RunRecord(serviceAddress, c, faults, before, out)
    /\ UNCHANGED <<ledgerVars, storeVars, config, api, lastRead, enhanced, x402, sweep>>

\* a flag is marked resolved from outside the core
ExternalResolveFlag ==
    /\ ResolvedCount(fraudFlags) < MaxResolved
    /\ \E i \in 1..Len(fraudFlags) :
          /\ ~fraudFlags[i].is_resolved
          /\ fraudFlags' = [fraudFlags EXCEPT ![i].is_resolved = TRUE]
    /\ UNCHANGED <<ledgerVars, storeVars, webhookStats, alerts, lastRun, config, api, lastRead,
                   enhanced, x402, sweep>>

(***************************************************************************)
(* Reading the fraud score                                                 *)
(***************************************************************************)
\* the rows a fraud_flags table can hold: flags of either service, of any
\* basic rule, resolved or not
FlagRows ==
    {[service_address |-> a, flag_type |-> BasicRules[i],
      severity |-> RuleSeverity(BasicRules[i]), is_resolved |-> r] :
        a \in ScannedServices, i \in 1..Len(BasicRules), r \in BOOLEAN}

FlagTables == UNION {[1..n -> FlagRows] : n \in 0..MaxFlags}

InitScore ==
    /\ InitCommon
    /\ config = RepositoryConfig
    /\ transactions = <<>>
    /\ fraudFlags \in FlagTables
    /\ serviceReputation = NoSnapshots
    /\ agentReputation = NoSnapshots

\* GET fraud score: getFraudScore(address)
GetFraudScore ==
    /\ \E address \in ScannedServices :
          lastRead' = [call |-> "getFraudScore", address |-> address,
                       value |-> getFraudScore(fraudFlags, address)]
    /\ UNCHANGED <<ledgerVars, storeVars, fraudVars, config, api, enhanced, x402, sweep>>

NextScore == GetFraudScore

SpecScore == InitScore /\ [][NextScore]_vars

(***************************************************************************)
(* The scheduler's sweeps                                                  *)
(***************************************************************************)
\* the orders in which a query can return the addresses of a set
Orderings(S) ==
    {f \in [1..Cardinality(S) -> S] : \A i, j \in 1..Cardinality(S) : f[i] = f[j] => i = j}

\* how an awaited evaluation ends: it returns, it throws, or it never settles
Settlements == {"settles", "never"}

\* the loop body without its try/catch: a throwing evaluation ends the scan
fraudScanAddressUncaught(scan, address, out) ==
    [scan EXCEPT !.i = @ + 1,
                 !.attempted = Append(@, address),
                 !.pc = IF out.status = "threw" THEN "aborted" ELSE @,
                 !.count = IF out.status = "returned" /\ Len(out.result) > 0
                           THEN @ + 1 ELSE @]

\* the try/catch around one address of runFraudScan: out is what
\* checkServiceForFraud did
fraudScanAddress(scan, address, out) ==
    [scan EXCEPT !.i = @ + 1,
                 !.attempted = Append(@, address),
                 !.failed = IF out.status = "threw" THEN @ \cup {address} ELSE @,
                 !.count = IF out.status = "returned" /\ Len(out.result) > 0
                           THEN @ + 1 ELSE @]

\* the try/catch around one service of updateAllScores
updateServiceScore(upd, address, outcome) ==
    [upd EXCEPT !.i = @ + 1,
                !.attemptedServices = Append(@, address),
                !.failed = IF outcome = "throws" THEN @ \cup {address} ELSE @,
                !.serviceCount = IF outcome = "throws" THEN @ ELSE @ + 1]

\* the try/catch around one agent of updateAllScores
updateAgentScore(upd, address, outcome) ==
    [upd EXCEPT !.i = @ + 1,
                !.attemptedAgents = Append(@, address),
                !.failed = IF outcome = "throws" THEN @ \cup {address} ELSE @,
                !.agentCount = IF outcome = "throws" THEN @ ELSE @ + 1]

\* job 1 fires: runFraudScan() reads the services; a failing query makes the
\* call throw into the job's catch.  A behaviour runs one kind of sweep.
FraudScanStart ==
    /\ sweep.fraudScan.pc \in {"idle", "done", "aborted"}
    /\ sweep.fraudScan.runs < MaxSweeps
    /\ sweep.scoreUpdate = IdleUpdate
    /\ \E query \in {"ok", "fail"} :
          IF query = "fail"
          THEN sweep' = [sweep EXCEPT !.fraudScan =
                           [IdleScan EXCEPT !.pc = "aborted", !.runs = sweep.fraudScan.runs + 1]]
          ELSE \E services \in Orderings(getAllServices(transactions)) :
                  sweep' = [sweep EXCEPT !.fraudScan =
                              [IdleScan EXCEPT !.pc = "running", !.list = services,
                                               !.runs = sweep.fraudScan.runs + 1]]
    /\ UNCHANGED <<ledgerVars, storeVars, fraudVars, config, api, lastRead, enhanced, x402>>

\* one iteration of the for loop of runFraudScan
FraudScanStep ==
    /\ sweep.fraudScan.pc = "running"
    /\ sweep.fraudScan.i <= Len(sweep.fraudScan.list)
    /\ \E settlement \in Settlements :
          IF settlement = "never"
          THEN /\ sweep' = [sweep EXCEPT !.fraudScan.pc = "blocked"]
               /\ UNCHANGED fraudVars
          ELSE \E c \in RuleVectors(transactions,
                                      sweep.fraudScan.list[sweep.fraudScan.i]) :
                 /\ Len(fraudFlags) + Cardinality(Positives(c)) <= MaxFlags
                 /\ \E faults \in FaultPlans(c) :
                       LET serviceAddress == sweep.fraudScan.list[sweep.fraudScan.i]
                           before == [flags |-> fraudFlags, alerts |-> alerts]
                           out == checkServiceForFraud(serviceAddress, c, faults,
                                                       fraudFlags, alerts, webhookStats)
                       IN /\ fraudFlags' = out.flags
                          /\ alerts' = out.alerts
                          /\ webhookStats' = out.stats
                          /\ lastRun' = RunRecord(serviceAddress, c, faults, before, out)
                          /\ sweep' = [sweep EXCEPT !.fraudScan =
                                         fraudScanAddress(@, serviceAddress, out)]
    /\ UNCHANGED <<ledgerVars, storeVars, config, api, lastRead, enhanced, x402>>

\* the loop is over: runFraudScan returns {scanned, flagged}
FraudScanFinish ==
    /\ sweep.fraudScan.pc = "running"
    /\ sweep.fraudScan.i > Len(sweep.fraudScan.list)
    /\ sweep' = [sweep EXCEPT !.fraudScan.pc = "done"]
    /\ UNCHANGED <<ledgerVars, storeVars, fraudVars, config, api, lastRead, enhanced, x402>>

\* what the fraud scan itself can do next
FraudScanAdvance == FraudScanStep \/ FraudScanFinish

\* job 2 fires: updateAllScores() reads the services
ScoreUpdateStart ==
    /\ sweep.scoreUpdate.pc \in {"idle", "done", "aborted"}
    /\ sweep.scoreUpdate.runs < MaxSweeps
    /\ sweep.fraudScan = IdleScan
    /\ \E query \in {"ok", "fail"} :
          IF query = "fail"
          THEN sweep' = [sweep EXCEPT !.scoreUpdate =
                           [IdleUpdate EXCEPT !.pc = "aborted",
                                              !.runs = sweep.scoreUpdate.runs + 1]]
          ELSE \E services \in Orderings(getAllServices(transactions)) :
                  sweep' = [sweep EXCEPT !.scoreUpdate =
                              [IdleUpdate EXCEPT !.pc = "services", !.services = services,
                                                 !.runs = sweep.scoreUpdate.runs + 1]]
    /\ UNCHANGED <<ledgerVars, storeVars, fraudVars, config, api, lastRead, enhanced, x402>>

\* a first loop that counts the service without recomputing it
ScoreUpdateServiceStepCountsOnly ==
    /\ sweep.scoreUpdate.pc = "services"
    /\ sweep.scoreUpdate.i <= Len(sweep.scoreUpdate.services)
    /\ sweep' = [sweep EXCEPT !.scoreUpdate =
                    updateServiceScore(@, sweep.scoreUpdate.services[sweep.scoreUpdate.i],
                                       "returns")]
    /\ UNCHANGED <<ledgerVars, storeVars, fraudVars, config, api, lastRead, enhanced, x402>>

\* one iteration of the first loop of updateAllScores
ScoreUpdateServiceStep ==
    /\ sweep.scoreUpdate.pc = "services"
    /\ sweep.scoreUpdate.i <= Len(sweep.scoreUpdate.services)
    /\ \E outcome \in {"returns", "throws"} :
          LET address == sweep.scoreUpdate.services[sweep.scoreUpdate.i]
          IN /\ serviceReputation' =
                  IF outcome = "throws" THEN serviceReputation
                  ELSE persistServiceReputation(serviceReputation, transactions,
                                                fraudFlags, now, address)
             /\ sweep' = [sweep EXCEPT !.scoreUpdate = updateServiceScore(@, address, outcome)]
    /\ UNCHANGED <<ledgerVars, transactions, agentReputation, fraudVars, config, api, lastRead,
                   enhanced, x402>>

\* the first loop is over: updateAllScores reads the agents
ScoreUpdateReadAgents ==
    /\ sweep.scoreUpdate.pc = "services"
    /\ sweep.scoreUpdate.i > Len(sweep.scoreUpdate.services)
    /\ \E query \in {"ok", "fail"} :
          IF query = "fail"
          THEN sweep' = [sweep EXCEPT !.scoreUpdate.pc = "aborted"]
          ELSE \E agents \in Orderings(getAllAgents(transactions)) :
                  sweep' = [sweep EXCEPT !.scoreUpdate.pc = "agents",
                                         !.scoreUpdate.agents = agents,
                                         !.scoreUpdate.i = 1]
    /\ UNCHANGED <<ledgerVars, storeVars, fraudVars, config, api, lastRead, enhanced, x402>>

\* one iteration of the second loop of updateAllScores
ScoreUpdateAgentStep ==
    /\ sweep.scoreUpdate.pc = "agents"
    /\ sweep.scoreUpdate.i <= Len(sweep.scoreUpdate.agents)
    /\ \E outcome \in {"returns", "throws"} :
          LET address == sweep.scoreUpdate.agents[sweep.scoreUpdate.i]
          IN /\ agentReputation' =
                  IF outcome = "throws" THEN agentReputation
                  ELSE SaveSnapshot(agentReputation,
                           calculateAgentReputation(transactions, now, address))
             /\ sweep' = [sweep EXCEPT !.scoreUpdate = updateAgentScore(@, address, outcome)]
    /\ UNCHANGED <<ledgerVars, transactions, serviceReputation, fraudVars, config, api, lastRead,
                   enhanced, x402>>

\* the second loop is over: updateAllScores returns its counts
ScoreUpdateFinish ==
    /\ sweep.scoreUpdate.pc = "agents"
    /\ sweep.scoreUpdate.i > Len(sweep.scoreUpdate.agents)
    /\ sweep' = [sweep EXCEPT !.scoreUpdate.pc = "done"]
    /\ UNCHANGED <<ledgerVars, storeVars, fraudVars, config, api, lastRead, enhanced, x402>>

NextSweep ==
    \/ Tick
    \/ FraudScanStart
    \/ FraudScanStep
    \/ FraudScanFinish
    \/ ScoreUpdateStart
    \/ ScoreUpdateServiceStep
    \/ ScoreUpdateReadAgents
    \/ ScoreUpdateAgentStep
    \/ ScoreUpdateFinish

SpecSweep == InitSweep /\ [][NextSweep]_vars

(***************************************************************************)
(* The reputation API                                                      *)
(***************************************************************************)
\* the addresses the API is asked about
ApiServices == {"s1"}
ApiAgents == {"a1"}

\* the flags tables the API runs against: velocity flags of s1, resolved or
\* not
ApiFlagTables ==
    UNION {[1..n -> {f \in FlagRows : f.service_address = "s1"
                                      /\ f.flag_type = "velocity_abuse"}] :
             n \in 0..MaxFlags}

InitRep ==
    /\ InitCommon
    /\ config = RepositoryConfig
    /\ transactions \in SeededStores
    /\ fraudFlags \in ApiFlagTables
    /\ serviceReputation = NoSnapshots
    /\ agentReputation = NoSnapshots

\* what a request saw and returned
Request(call, address, scored, value) ==
    [call |-> call, address |-> address, scored |-> scored, value |-> value,
     at |-> now, txs |-> Len(transactions), flags |-> fraudFlags,
     rerun |-> /\ scored
               /\ lastRead.call = call
               /\ lastRead.address = address
               /\ lastRead.scored
               /\ lastRead.at = now
               /\ lastRead.txs = Len(transactions)
               /\ lastRead.flags = fraudFlags]

\* GET /service/:address, with or without recalculate=true
GetServiceReputation ==
    /\ \E address \in ApiServices, forceRecalculate \in BOOLEAN :
          IF forceRecalculate \/ serviceReputation[address] = Absent
          THEN /\ serviceReputation' = persistServiceReputation(serviceReputation,
                                           transactions, fraudFlags, now, address)
               /\ lastRead' = Request("GET /service", address, TRUE,
                                  calculateServiceReputation(transactions, fraudFlags,
                                                             now, address))
          ELSE /\ lastRead' = Request("GET /service", address, FALSE,
                                      serviceReputation[address])
               /\ UNCHANGED serviceReputation
    /\ UNCHANGED <<ledgerVars, transactions, agentReputation, fraudVars, config, api,
                   enhanced, x402, sweep>>

\* GET /agent/:address, with or without recalculate=true
GetAgentReputation ==
    /\ \E address \in ApiAgents, forceRecalculate \in BOOLEAN :
          IF forceRecalculate \/ agentReputation[address] = Absent
          THEN /\ agentReputation' =
                    SaveSnapshot(agentReputation,
                                 calculateAgentReputation(transactions, now, address))
               /\ lastRead' = Request("GET /agent", address, TRUE,
                                  calculateAgentReputation(transactions, now, address))
          ELSE /\ lastRead' = Request("GET /agent", address, FALSE,
                                      agentReputation[address])
               /\ UNCHANGED agentReputation
    /\ UNCHANGED <<ledgerVars, transactions, serviceReputation, fraudVars, config, api,
                   enhanced, x402, sweep>>

\* scripts/seed-data.js: a transaction is written to the store directly
SeedTransaction ==
    /\ \E tx \in {[SeededRow("h6", "a1", "s1", 2000) EXCEPT !.timestamp = now]} :
          /\ tx.tx_hash \notin StoredHashes(transactions)
          /\ transactions' = saveTransaction(transactions, tx)
    /\ UNCHANGED <<ledgerVars, serviceReputation, agentReputation, fraudVars, config, api,
                   lastRead, enhanced, x402, sweep>>

NextRep ==
    \/ Tick
    \/ SeedTransaction
    \/ ExternalResolveFlag
    \/ GetServiceReputation
    \/ GetAgentReputation

SpecRep == InitRep /\ [][NextRep]_vars

(***************************************************************************)
(* Recomputations side by side: an event of the Enhanced indexer at the    *)
(* grain of its awaits and the score-update sweep                          *)
(***************************************************************************)
\* the transactionData of the events that arrive
ArrivingRows == {SeededRow("h6", "a1", "s1", 2000), SeededRow("h7", "a2", "s1", 5)}

\* processTransferWithAuthEvent up to its await of saveTransaction: the row
\* is stored and the handler yields before updateReputations
EventSave ==
    /\ \E tx \in ArrivingRows :
          /\ tx.tx_hash \notin StoredHashes(transactions)
          /\ transactions' = saveTransaction(transactions, [tx EXCEPT !.timestamp = now])
          /\ enhanced' = [enhanced EXCEPT
                            !.stats.transactionsSaved = @ + 1,
                            !.inFlight = @ \cup {[from |-> tx.from_address,
                                                  to |-> tx.to_address]}]
    /\ UNCHANGED <<ledgerVars, serviceReputation, agentReputation, fraudVars, config, api,
                   lastRead, x402, sweep>>

\* the handler resumes: await this.updateReputations(from, to)
EventUpdateReputations ==
    /\ \E e \in enhanced.inFlight :
          \E out \in {updateReputations(e.from, e.to, "none", now, fraudFlags,
                          [txs |-> transactions, srep |-> serviceReputation,
                           arep |-> agentReputation])} :
             /\ serviceReputation' = out.srep
             /\ agentReputation' = out.arep
             /\ enhanced' = [enhanced EXCEPT !.inFlight = @ \ {e}]
    /\ UNCHANGED <<ledgerVars, transactions, fraudVars, config, api, lastRead, x402, sweep>>

NextConverge ==
    \/ EventSave
    \/ EventUpdateReputations
    \/ ScoreUpdateStart
    \/ ScoreUpdateServiceStep
    \/ ScoreUpdateReadAgents
    \/ ScoreUpdateAgentStep
    \/ ScoreUpdateFinish

SpecConverge == InitSweep /\ [][NextConverge]_vars

(***************************************************************************)
(* The snapshots kept fresh: writers of source data beside a cron schedule *)
(* that never ends                                                         *)
(***************************************************************************)
\* job 2 fires, any number of times: updateAllScores() reads the services
ScoreUpdateCron ==
    /\ sweep.scoreUpdate.pc \in {"idle", "done", "aborted"}
    /\ \E query \in {"ok", "fail"} :
          IF query = "fail"
          THEN sweep' = [sweep EXCEPT !.scoreUpdate = [IdleUpdate EXCEPT !.pc = "aborted"]]
          ELSE \E services \in Orderings(getAllServices(transactions)) :
                  sweep' = [sweep EXCEPT !.scoreUpdate =
                              [IdleUpdate EXCEPT !.pc = "services", !.services = services]]
    /\ UNCHANGED <<ledgerVars, storeVars, fraudVars, config, api, lastRead, enhanced, x402>>

\* the first checkServiceForFraud("s1") with a finding: velocity_abuse, and
\* nothing failing
VelocityFlagRaised ==
    /\ fraudFlags = <<>>
    /\ CheckServiceForFraud
    /\ lastRun'.service = "s1"
    /\ lastRun'.positives = <<"velocity_abuse">>
    /\ ~lastRun'.detectorThrew
    /\ lastRun'.faults = {}

\* a sweep in which no query fails: the job fires and lists the services,
\* recomputes the next one, lists the agents, recomputes the next one, ends
SweepAdvance ==
    \/ ScoreUpdateCron /\ sweep'.scoreUpdate.pc = "services"
    \/ ScoreUpdateServiceStep /\ sweep'.scoreUpdate.failed = {}
    \/ ScoreUpdateReadAgents /\ sweep'.scoreUpdate.pc = "agents"
    \/ ScoreUpdateAgentStep /\ sweep'.scoreUpdate.failed = {}
    \/ ScoreUpdateFinish

\* the writers of source data (the first event that arrives, a flag) and
\* the recomputations
NextFresh ==
    \/ EventSave /\ enhanced.stats.transactionsSaved = 0
    \/ EventUpdateReputations
    \/ VelocityFlagRaised
    \/ SweepAdvance

\* the first seeded store; the schedule keeps firing and a sweep under way
\* goes on
InitFresh == InitSweep /\ Len(transactions) = 2

SpecFresh == InitFresh /\ [][NextFresh]_vars /\ WF_vars(SweepAdvance)

(***************************************************************************)
(* The scorers over the answers of their metrics query, given as inputs as *)
(* the unit tests give them (tests/unit: mockDb.prepare().get)             *)
(***************************************************************************)
\* Date.now() / 1000 at the call
EvalTime == 400 * DaySeconds

\* answers of the service metrics query: no row, or counts, volume and
\* payers below, at and above the caps, first seen and last active some
\* days before the call
ServiceMetricsSamples ==
    {[total_transactions |-> 0, total_volume |-> 0, unique_payers |-> 0,
      first_seen |-> 0, last_active |-> 0]}
    \cup {m \in {[total_transactions |-> n, total_volume |-> v, unique_payers |-> p,
                   first_seen |-> EvalTime - a * DaySeconds,
                   last_active |-> EvalTime - d * DaySeconds] :
                     n \in {1, 50, 100, 500}, v \in {5, 1000, 25000},
                     p \in {1, 5, 50, 200}, a \in {2, 45, 90, 400},
                     d \in {0, 7, 30}} :
             m.unique_payers <= m.total_transactions /\ m.first_seen <= m.last_active}

\* answers of the agent metrics query
AgentMetricsSamples ==
    {[total_payments |-> 0, total_spent |-> 0, unique_services |-> 0,
      first_payment |-> 0, last_payment |-> 0]}
    \cup {m \in {[total_payments |-> n, total_spent |-> v, unique_services |-> p,
                   first_payment |-> EvalTime - a * DaySeconds,
                   last_payment |-> EvalTime - d * DaySeconds] :
                     n \in {1, 5, 100, 150}, v \in {25, 1000, 7500},
                     p \in {1, 3, 20, 25}, a \in {2, 7, 60, 400},
                     d \in {0, 7, 30}} :
             m.unique_services <= m.total_payments /\ m.first_payment <= m.last_payment}

\* the flags of s1 when it is scored: new_wallet_risk and wash_trading
\* flags, resolved or not
InitScorer ==
    /\ InitCommon
    /\ config = RepositoryConfig
    /\ transactions = <<>>
    /\ fraudFlags \in UNION {[1..n -> {f \in FlagRows :
                                          /\ f.service_address = "s1"
                                          /\ f.flag_type \in {"new_wallet_risk",
                                                               "wash_trading"}}] :
                                n \in 0..MaxFlags}
    /\ serviceReputation = NoSnapshots
    /\ agentReputation = NoSnapshots

\* calculateServiceReputation("s1") over an answer of the metrics query
ScoreService ==
    /\ lastRead = NoRead
    /\ \E metrics \in ServiceMetricsSamples :
          \E reputation \in {ServiceSnapshot("s1", metrics,
                                 getFraudFlags(fraudFlags, "s1", FALSE), EvalTime)} :
             /\ serviceReputation' = SaveSnapshot(serviceReputation, reputation)
             /\ lastRead' = [call |-> "calculateServiceReputation", metrics |-> metrics,
                             value |-> reputation]
    /\ UNCHANGED <<ledgerVars, transactions, agentReputation, fraudVars, config, api,
                   enhanced, x402, sweep>>

\* calculateAgentReputation("a1") over an answer of the metrics query
ScoreAgent ==
    /\ lastRead = NoRead
    /\ \E metrics \in AgentMetricsSamples :
          \E reputation \in {AgentSnapshot("a1", metrics, EvalTime)} :
             /\ agentReputation' = SaveSnapshot(agentReputation, reputation)
             /\ lastRead' = [call |-> "calculateAgentReputation", metrics |-> metrics,
                             value |-> reputation]
    /\ UNCHANGED <<ledgerVars, transactions, serviceReputation, fraudVars, config, api,
                   enhanced, x402, sweep>>

NextScorer == ScoreService \/ ScoreAgent

SpecScorer == InitScorer /\ [][NextScorer]_vars

(***************************************************************************)
(* Trust compatibility (reputation/trust-matcher.js)                       *)
(***************************************************************************)
\* checkTrustCompatibility(serviceAddress, agentAddress): the two tables
\* after the call and the object returned.  compatibility is kept in halves
\* of a point (twice), as the mean of two integers is; Math.round is applied
\* to the returned score only.
checkTrustCompatibility(srep, arep, flags, txs, t, serviceAddress, agentAddress) ==
    LET lazyService == srep[serviceAddress] = Absent
        lazyAgent == arep[agentAddress] = Absent
        serviceRep == IF lazyService
                      THEN calculateServiceReputation(txs, flags, t, serviceAddress)
                      ELSE srep[serviceAddress]
        agentRep == IF lazyAgent
                    THEN calculateAgentReputation(txs, t, agentAddress)
                    ELSE arep[agentAddress]
        serviceFraud == getFraudFlags(flags, serviceAddress, FALSE)
        hasFraudFlags == Len(serviceFraud) > 0
        scoreDiff == IF serviceRep.reputationScore >= agentRep.reputationScore
                     THEN serviceRep.reputationScore - agentRep.reputationScore
                     ELSE agentRep.reputationScore - serviceRep.reputationScore
        twice == Max(0, Min(200, serviceRep.reputationScore + agentRep.reputationScore
                                  - (IF scoreDiff > 30 THEN 20 ELSE 0)
                                  - (IF hasFraudFlags THEN 40 ELSE 0)))
        recommended == twice >= 120 /\ ~hasFraudFlags
    IN [srep |-> IF lazyService THEN SaveSnapshot(srep, serviceRep) ELSE srep,
        arep |-> IF lazyAgent THEN SaveSnapshot(arep, agentRep) ELSE arep,
        result |->
          [service |-> [address |-> serviceAddress, score |-> serviceRep.reputationScore,
                        trustLevel |-> serviceRep.trustLevel,
                        fraudFlags |-> Len(serviceFraud)],
           agent |-> [address |-> agentAddress, score |-> agentRep.reputationScore,
                      trustLevel |-> agentRep.trustLevel],
           compatibility |->
             [score |-> (twice + 1) \div 2,
              recommended |-> recommended,
              riskLevel |-> IF twice < 80 \/ hasFraudFlags THEN "high"
                            ELSE IF twice < 120 THEN "medium" ELSE "low",
              warnings |->
                 (IF serviceRep.reputationScore < 50 THEN <<"low service score">> ELSE <<>>)
                 \o (IF agentRep.reputationScore < 50 THEN <<"low agent score">> ELSE <<>>)
                 \o (IF hasFraudFlags THEN <<"active fraud alerts">> ELSE <<>>)
                 \o (IF serviceRep.accountAgeDays < 7 THEN <<"very new service">> ELSE <<>>)],
           safe |-> recommended]]

\* a snapshot an earlier scorer run left in a table
StoredSnapshot(address, score) ==
    [address |-> address, reputationScore |-> score, trustLevel |-> TrustLevel(score),
     badges |-> <<>>, total |-> 100, volume |-> 100, unique |-> 50,
     accountAgeDays |-> 90, saved |-> TRUE]

\* the tables when the matcher is called: a seeded store, velocity flags on
\* s1, and for s1 and a1 no snapshot or one with a score an earlier run left
InitAssess ==
    /\ InitCommon
    /\ config = RepositoryConfig
    /\ transactions \in SeededStores
    /\ fraudFlags \in ApiFlagTables
    /\ serviceReputation \in
          {NoSnapshots} \cup {[NoSnapshots EXCEPT !["s1"] = StoredSnapshot("s1", score)] :
                                 score \in {60, 85}}
    /\ agentReputation \in
          {NoSnapshots} \cup {[NoSnapshots EXCEPT !["a1"] = StoredSnapshot("a1", score)] :
                                 score \in {20, 59}}

\* one call of checkTrustCompatibility
CheckTrustCompatibility ==
    /\ \E serviceAddress \in {"s1", "s2"}, agentAddress \in {"a1", "a2"} :
          \E out \in {checkTrustCompatibility(serviceReputation, agentReputation,
                          fraudFlags, transactions, now, serviceAddress, agentAddress)} :
             /\ serviceReputation' = out.srep
             /\ agentReputation' = out.arep
             /\ lastRead' = [call |-> "checkTrustCompatibility", value |-> out.result]
    /\ UNCHANGED <<ledgerVars, transactions, fraudVars, config, api, enhanced, x402, sweep>>

SpecAssess == InitAssess /\ [][CheckTrustCompatibility]_vars

(***************************************************************************)
(* The 7-pattern analysis (fraud/detector.js analyzeFraudPatterns)         *)
(***************************************************************************)
RECURSIVE getTransactionsByAddress(_, _)
\* getTransactionsByAddress(address, true): the rows paid to the address,
\* newest first
getTransactionsByAddress(txs, address) ==
    LET rows == SelectSeq(txs, LAMBDA t : t.to_address = address)
    IN IF rows = <<>> THEN <<>>
       ELSE LET top == CHOOSE i \in 1..Len(rows) :
                          \A j \in 1..Len(rows) :
                             \/ rows[j].timestamp < rows[i].timestamp
                             \/ rows[j].timestamp = rows[i].timestamp /\ i <= j
            IN <<rows[top]>>
               \o getTransactionsByAddress(
                     [k \in 1..(Len(rows) - 1) |-> IF k < top THEN rows[k] ELSE rows[k + 1]],
                     address)

\* analyzeFraudPatterns once getTransactionsByAddress has answered at time t.
\* Ratios are compared by cross-multiplication and Math.floor is \div; a
\* division by zero gives Infinity (the cap 10 applies) or NaN (every
\* comparison with it is false).
analyzeFraudPatterns(txs, t, serviceAddress) ==
    LET transactions_ == getTransactionsByAddress(txs, serviceAddress)
        n == Len(transactions_)
        amount(i) == transactions_[i].amount
        stamp(i) == transactions_[i].timestamp
        totalVolume == SumSeq([i \in 1..n |-> amount(i)])
        \* Pattern 1: Velocity Abuse
        recent == Cardinality({i \in 1..n : stamp(i) > t - 3600})
        velocity == IF recent > 50
                    THEN <<[type |-> "VELOCITY_ABUSE", severity |-> Min(10, recent \div 10)]>>
                    ELSE <<>>
        \* Pattern 2: Identical Amounts
        uniqueAmounts == {amount(i) : i \in 1..n}
        identical == IF Cardinality(uniqueAmounts) = 1 /\ n > 10
                     THEN <<[type |-> "IDENTICAL_AMOUNTS", severity |-> Min(10, n \div 20)]>>
                     ELSE <<>>
        \* Pattern 3: Low Payer Diversity
        uniquePayers == {transactions_[i].from_address : i \in 1..n}
        u == Cardinality(uniquePayers)
        diversity == IF 10 * u < n /\ n > 20
                     THEN <<[type |-> "LOW_PAYER_DIVERSITY",
                             severity |-> Min(10, (15 * (n - u)) \div n)]>>
                     ELSE <<>>
        \* Pattern 4: New Wallet Risk
        age == t - stamp(n)
        newWallet == IF age < 7 * DaySeconds /\ totalVolume > 100
                     THEN <<[type |-> "NEW_WALLET_RISK",
                             severity |-> Min(10, (100 * 864000 - 100 * age
                                                    + 8640 * Min(totalVolume, 100000))
                                                   \div 864000)]>>
                     ELSE <<>>
        \* Pattern 5: Volume Spike
        days == {stamp(i) \div DaySeconds : i \in 1..n}
        dayVolume(d) == SumSeq([i \in 1..n |->
                                  IF stamp(i) \div DaySeconds = d THEN amount(i) ELSE 0])
        latestDay == MaxOfSet(days)
        latestVolume == dayVolume(latestDay)
        restVolume == totalVolume - latestVolume
        rest == Cardinality(days) - 1
        spike == IF Cardinality(days) > 7 /\ latestVolume * rest > 5 * restVolume
                 THEN <<[type |-> "VOLUME_SPIKE",
                         severity |-> IF restVolume = 0 THEN 10
                                      ELSE Min(10, (latestVolume * rest)
                                                   \div (2 * restVolume))]>>
                 ELSE <<>>
        \* Pattern 6: Wash Trading
        count(p) == Cardinality({i \in 1..n : transactions_[i].from_address = p})
        first(p) == MinOfSet({i \in 1..n : transactions_[i].from_address = p})
        before(p) == {q \in uniquePayers :
                        \/ count(q) > count(p)
                        \/ count(q) = count(p) /\ first(q) < first(p)}
        topPayers == {p \in uniquePayers : Cardinality(before(p)) < 3}
        topPayerVolume == SumSeq([i \in 1..n |->
                                    IF transactions_[i].from_address \in topPayers
                                    THEN amount(i) ELSE 0])
        wash == IF 5 * topPayerVolume > 4 * totalVolume /\ n > 20
                THEN <<[type |-> "WASH_TRADING",
                        severity |-> Min(10, (12 * topPayerVolume) \div totalVolume)]>>
                ELSE <<>>
        \* Pattern 7: Time Clustering
        m == Min(n, 20) - 1
        interval(i) == stamp(i) - stamp(i + 1)
        sum == SumSeq([i \in 1..m |-> interval(i)])
        squares == SumSeq([i \in 1..m |-> interval(i) * interval(i)])
        clustering == IF /\ n > 10
                         /\ sum > 0
                         /\ sum < 300 * m
                         /\ m * squares - sum * sum <= (sum * sum - 1) \div 25
                      THEN <<[type |-> "TIME_CLUSTERING", severity |-> 10]>>
                      ELSE <<>>
        patterns == velocity \o identical \o diversity \o newWallet \o spike \o wash
                    \o clustering
        maxSeverity == MaxOfSet({patterns[i].severity : i \in 1..Len(patterns)} \cup {0})
        riskLevel == IF maxSeverity >= 8 THEN "critical"
                     ELSE IF maxSeverity >= 6 THEN "high"
                     ELSE IF maxSeverity >= 4 THEN "medium" ELSE "low"
        bySeverity(v) == SelectSeq(patterns, LAMBDA p : p.severity = v)
    IN IF n = 0
       THEN [address |-> serviceAddress, patterns |-> <<>>,
             summary |-> [totalPatterns |-> 0, riskLevel |-> "low"]]
       ELSE [address |-> serviceAddress, totalTransactions |-> n,
             totalVolume |-> totalVolume, accountAgeDays |-> age \div DaySeconds,
             uniquePayers |-> u,
             patterns |-> bySeverity(10) \o bySeverity(9) \o bySeverity(8) \o bySeverity(7)
                          \o bySeverity(6) \o bySeverity(5) \o bySeverity(4)
                          \o bySeverity(3) \o bySeverity(2) \o bySeverity(1)
                          \o bySeverity(0),
             summary |-> [totalPatterns |-> Len(patterns), riskLevel |-> riskLevel,
                          maxSeverity |-> maxSeverity]]

\* histories as scripts/seed-diverse-data.js builds them: n payments to s1
\* ending at the time of the call, the payer rotating through k addresses,
\* one every step seconds (regular) or at growing gaps, the amount always
\* the same, varied, or small with one large last payment
SeededHistory(n, k, step, regular, amounts) ==
    [i \in 1..n |->
       [tx_hash |-> i,
        from_address |-> <<"a1", "a2", "a3">>[(i % k) + 1],
        to_address |-> "s1",
        amount |-> CASE amounts = "same" -> 10
                     [] amounts = "varied" -> 5 + (i % 3)
                     [] amounts = "spike" -> IF i = n THEN 100 ELSE 1,
        block_number |-> i,
        timestamp |-> IF regular THEN EvalTime - (n - i) * step
                      ELSE EvalTime - (n - i) * (n - i) * step,
        facilitator_address |-> "fac"]]

InitAnalysis ==
    /\ InitCommon
    /\ config = RepositoryConfig
    /\ transactions \in {SeededHistory(n, k, step, regular, amounts) :
                           n \in {0, 1, 11, 21, 60}, k \in {1, 3},
                           step \in {30, 600, DaySeconds}, regular \in BOOLEAN,
                           amounts \in {"same", "varied", "spike"}}
    /\ fraudFlags \in {f \in FlagTables : \A i \in 1..Len(f) :
                                              /\ f[i].service_address = "s1"
                                              /\ f[i].flag_type = "velocity_abuse"}
    /\ serviceReputation = NoSnapshots
    /\ agentReputation = NoSnapshots

\* an analysis that also persists what it finds, as the basic aggregator does
AnalyzeFraudPatternsFlagging ==
    /\ \E address \in ScannedServices :
          \E out \in {analyzeFraudPatterns(transactions, EvalTime, address)} :
             /\ lastRead' = [call |-> "analyzeFraudPatterns", address |-> address,
                             status |-> "returned", value |-> out]
             /\ fraudFlags' = IF out.patterns = <<>> THEN fraudFlags
                              ELSE saveFraudFlag(fraudFlags,
                                      [serviceAddress |-> address,
                                       flagType |-> "velocity_abuse",
                                       severity |-> out.patterns[1].severity])
    /\ UNCHANGED <<ledgerVars, storeVars, webhookStats, alerts, lastRun, config, api,
                   enhanced, x402, sweep>>

\* an analysis without the early return for an empty history: reading the
\* oldest transaction of none throws
AnalyzeFraudPatternsUnguarded ==
    /\ \E address \in ScannedServices :
          \E out \in {analyzeFraudPatterns(transactions, EvalTime, address)} :
             lastRead' = [call |-> "analyzeFraudPatterns", address |-> address,
                          status |-> IF getTransactionsByAddress(transactions, address) = <<>>
                                     THEN "threw" ELSE "returned",
                          value |-> out]
    /\ UNCHANGED <<ledgerVars, storeVars, fraudVars, config, api, enhanced, x402, sweep>>

\* GET fraud patterns: analyzeFraudPatterns(address); nothing in it throws
\* once getTransactionsByAddress has answered
AnalyzeFraudPatterns ==
    /\ \E address \in ScannedServices :
          lastRead' = [call |-> "analyzeFraudPatterns", address |-> address,
                       status |-> "returned",
                       value |-> analyzeFraudPatterns(transactions, EvalTime, address)]
    /\ UNCHANGED <<ledgerVars, storeVars, fraudVars, config, api, enhanced, x402, sweep>>

SpecAnalysis == InitAnalysis /\ [][AnalyzeFraudPatterns \/ GetFraudScore]_vars

\* the aggregator and the analysis over a store in which s1 has been paid
\* and s2 has not
InitFraud ==
    /\ InitCommon
    /\ config \in ConfigChoices
    /\ transactions = <<SeededRow("h1", "a1", "s1", 5)>>
    /\ fraudFlags = <<>>
    /\ serviceReputation = NoSnapshots
    /\ agentReputation = NoSnapshots

NextFraud ==
    \/ CheckServiceForFraud
    \/ ExternalResolveFlag
    \/ AnalyzeFraudPatterns

SpecFraud == InitFraud /\ [][NextFraud]_vars

(***************************************************************************)
(* API middleware: the rate limiter and the x402 payment gate              *)
(***************************************************************************)
\* the clock moves to the next instant; passed[i] counts the requests the
\* limiter let through at Instants[i] and is kept for the instants of the
\* last windowMs milliseconds
Elapse ==
    /\ api.tick < Len(Instants)
    /\ api' = [api EXCEPT
                 !.tick = @ + 1,
                 !.passed = [i \in DOMAIN Instants |->
                               IF Instants[i] < Instants[api.tick + 1] - windowMs
                               THEN 0 ELSE api.passed[i]]]
    /\ UNCHANGED <<ledgerVars, storeVars, fraudVars, config, lastRead, enhanced, x402, sweep>>

\* a limiter that rejects only above the maximum
RateLimitAboveMax ==
    /\ \E ip \in DOMAIN api.requestCounts :
          LET t == Instants[api.tick]
              kept == [key \in DOMAIN api.requestCounts |->
                         IF /\ api.requestCounts[key] # Absent
                            /\ t - api.requestCounts[key].resetTime > windowMs
                         THEN Absent ELSE api.requestCounts[key]]
              entry == IF kept[ip] = Absent THEN [count |-> 0, resetTime |-> t]
                       ELSE kept[ip]
          IN IF entry.count > maxRequests
             THEN api' = [api EXCEPT
                            !.requestCounts = [kept EXCEPT ![ip] = entry],
                            !.lastResponse = [status |-> 429, handled |-> FALSE]]
             ELSE api' = [api EXCEPT
                            !.requestCounts = [kept EXCEPT ![ip] =
                                                  [entry EXCEPT !.count = @ + 1]],
                            !.passed[api.tick] = @ + 1,
                            !.lastResponse = [status |-> 200, handled |-> TRUE]]
    /\ UNCHANGED <<ledgerVars, storeVars, fraudVars, config, lastRead, enhanced, x402, sweep>>

\* rateLimit(req, res, next) for one request: expired entries are deleted,
\* the entry of the IP is created or restarted, a full entry answers 429,
\* otherwise the request is counted and next() hands it to the route
RateLimit ==
    /\ \E ip \in DOMAIN api.requestCounts :
          LET t == Instants[api.tick]
              kept == [key \in DOMAIN api.requestCounts |->
                         IF /\ api.requestCounts[key] # Absent
                            /\ t - api.requestCounts[key].resetTime > windowMs
                         THEN Absent ELSE api.requestCounts[key]]
              entry == IF kept[ip] = Absent THEN [count |-> 0, resetTime |-> t]
                       ELSE kept[ip]
          IN IF entry.count >= maxRequests
             THEN api' = [api EXCEPT
                            !.requestCounts = [kept EXCEPT ![ip] = entry],
                            !.lastResponse = [status |-> 429, handled |-> FALSE]]
             ELSE api' = [api EXCEPT
                            !.requestCounts = [kept EXCEPT ![ip] =
                                                  [entry EXCEPT !.count = @ + 1]],
                            !.passed[api.tick] = @ + 1,
                            !.lastResponse = [status |-> 200, handled |-> TRUE]]
    /\ UNCHANGED <<ledgerVars, storeVars, fraudVars, config, lastRead, enhanced, x402, sweep>>

SpecRate == Init /\ [][Elapse \/ RateLimit]_vars

\* x402PaymentRequired(price) for one request, from its arrival or from
\* the await it is suspended at to its next await or its response.  The
\* request carries a wallet or none, and an authorization header or none;
\* the one authorization in circulation is signed over the nonce bytes 0xab.
\*   getUserUsage   the wallet's monthlyChecks have been read
\*   checkNonceUsed verifyX402Payment has checked recipient, amount, period
\*                  and signature and has looked the nonce up in used_nonces
\* recordPayment with freeTier adds one to the wallet's usage; the INSERT
\* of markNonceUsed fails on a nonce string that is already stored.
X402PaymentRequired ==
    /\ \E slot \in DOMAIN api.inFlight :
          LET req == api.inFlight[slot]
              respond(a, status, handled) ==
                 [a EXCEPT !.inFlight[slot] = [pc |-> "idle"],
                           !.lastResponse = [status |-> status, handled |-> handled]]
              \* ethers reads the hex digits of the bytes32 nonce in either case
              getBytes(nonce) == IF nonce \in {"0xab", "0xAB"} THEN 171 ELSE 0
              authorize(r) ==
                 IF r.nonce = "none" \/ r.signedFor # getBytes(r.nonce)
                 THEN respond(api, 402, FALSE)
                 ELSE [api EXCEPT !.inFlight[slot] =
                          [r EXCEPT !.pc = "checkNonceUsed",
                                    !.nonceUsed = r.nonce \in api.used_nonces]]
          IN CASE req.pc = "idle" ->
                    \E wallet \in {"none", "w1"}, nonce \in {"none", "0xab", "0xAB"},
                       signedFor \in {0, 171} :
                       LET r == [pc |-> "getUserUsage", wallet |-> wallet,
                                 nonce |-> nonce, signedFor |-> signedFor,
                                 monthlyChecks |-> IF wallet = "none" THEN 0
                                                   ELSE api.usage[wallet],
                                 nonceUsed |-> FALSE]
                       IN api' = IF wallet = "none" THEN authorize(r)
                                 ELSE [api EXCEPT !.inFlight[slot] = r]
               [] req.pc = "getUserUsage" ->
                    api' = IF req.monthlyChecks < monthlyLimit
                           THEN [respond(api, 200, TRUE) EXCEPT
                                    !.usage[req.wallet] = @ + 1,
                                    !.served.free = @ + 1]
                           ELSE authorize(req)
               [] req.pc = "checkNonceUsed" ->
                    api' = IF req.nonceUsed \/ req.nonce \in api.used_nonces
                           THEN respond(api, 402, FALSE)
                           ELSE [respond(api, 200, TRUE) EXCEPT
                                    !.used_nonces = @ \cup {req.nonce},
                                    !.served.paid = @ + 1]
    /\ UNCHANGED <<ledgerVars, storeVars, fraudVars, config, lastRead, enhanced, x402, sweep>>

SpecPay == Init /\ [][X402PaymentRequired]_vars

\* everything the program and its environment can do
Next == NextIngest \/ NextFraud \/ NextScore \/ NextSweep \/ NextRep \/ NextConverge
           \/ NextFresh \/ NextScorer \/ CheckTrustCompatibility
           \/ EnhancedBackfillStart \/ EnhancedBackfillFinish
           \/ X402FilterExpired \/ X402RetrySetup
           \/ Elapse \/ RateLimit \/ X402PaymentRequired

Spec == Init /\ [][Next]_vars

(***************************************************************************)
(* Properties of the fraud aggregator                                      *)
(***************************************************************************)
\* C2: a run of checkServiceForFraud in which no save fails adds exactly
\* one new unresolved flag per positive finding, after the rows that were
\* there, which it leaves as they were.
C2_OneFlagPerFinding ==
    [][((lastRun' # lastRun \/ Len(fraudFlags') # Len(fraudFlags))
        /\ "save" \notin lastRun'.faults)
       => /\ Len(fraudFlags') = Len(fraudFlags) + Len(lastRun'.positives)
          /\ SubSeq(fraudFlags', 1, Len(fraudFlags)) = fraudFlags
          /\ \A k \in 1..Len(lastRun'.positives) :
               /\ fraudFlags'[Len(fraudFlags) + k].flag_type = lastRun'.positives[k]
               /\ ~fraudFlags'[Len(fraudFlags) + k].is_resolved]_vars

RECURSIVE ActivePenalty(_, _)
\* sum of severity * 10 over the unresolved flags of an address
ActivePenalty(flags, address) ==
    IF flags = <<>> THEN 0
    ELSE (IF Head(flags).service_address = address /\ ~Head(flags).is_resolved
          THEN Head(flags).severity * 10 ELSE 0)
         + ActivePenalty(Tail(flags), address)

ActiveSeverities(flags, address) ==
    {flags[i].severity : i \in {j \in 1..Len(flags) :
                                  /\ flags[j].service_address = address
                                  /\ ~flags[j].is_resolved}}

C4_DetectorThrowIsolated ==
    lastRun.detectorThrew =>
       /\ lastRun.status = "returned"
       /\ lastRun.result = lastRun.positives
       /\ lastRun.flagsAdded = Len(lastRun.positives)

\* C5: when saving the flag of one positive finding fails, saving is still
\* attempted for every positive finding of the run.
C5_PersistenceFailureIsolated ==
    "save" \in lastRun.faults => lastRun.saveAttempts = lastRun.positives

NotificationFaults == {"lookup", "delivery", "triggered", "bookkeeping"}

\* C6: one notification is dispatched per flag the run created, and a run
\* whose only failure is in a notification (webhook lookup, delivery or its
\* bookkeeping) still returns all findings with all their flags persisted.
C6_NotificationFailureIsolated ==
    /\ lastRun.alertsAdded = lastRun.flagsAdded
    /\ (lastRun.faults # {} /\ lastRun.faults \subseteq NotificationFaults
        /\ ~lastRun.detectorThrew)
       => /\ lastRun.status = "returned"
          /\ lastRun.result = lastRun.positives
          /\ lastRun.flagsAdded = Len(lastRun.positives)

(***************************************************************************)
(* Properties of the scheduler's sweeps                                    *)
(***************************************************************************)
\* C7: in both sweeps every address before the loop's position has been
\* evaluated, failed ones included; a sweep that is done evaluated its
\* whole population, and only a failing population query ends a sweep
\* early.
C7_AddressFailureIsolated ==
    LET f == sweep.fraudScan
        u == sweep.scoreUpdate
    IN /\ f.attempted = SubSeq(f.list, 1, f.i - 1)
       /\ f.failed \subseteq Range(f.attempted)
       /\ f.pc = "done" => f.attempted = f.list
       /\ f.pc = "aborted" => f.list = <<>> /\ f.attempted = <<>>
       /\ u.failed \subseteq Range(u.attemptedServices) \cup Range(u.attemptedAgents)
       /\ u.pc = "services" => u.attemptedServices = SubSeq(u.services, 1, u.i - 1)
       /\ u.pc \in {"agents", "done"} =>
            /\ u.attemptedServices = u.services
            /\ u.attemptedAgents = SubSeq(u.agents, 1,
                                     IF u.pc = "done" THEN Len(u.agents) ELSE u.i - 1)
       /\ u.pc = "aborted" =>
            /\ u.attemptedServices = u.services
            /\ u.agents = <<>> /\ u.attemptedAgents = <<>>

\* a fraud scan is done whose first address threw and whose second address
\* was evaluated after it
C7_Witness ==
    /\ sweep.fraudScan.pc = "done"
    /\ Len(sweep.fraudScan.list) = 2
    /\ sweep.fraudScan.list[1] \in sweep.fraudScan.failed
    /\ sweep.fraudScan.attempted = sweep.fraudScan.list

\* C8: a fraud scan waiting on an address whose evaluation does not settle
\* can still move on to the remaining addresses (a timeout ends the wait).
C8_SlowAddressBounded ==
    sweep.fraudScan.pc = "blocked" => ENABLED FraudScanAdvance

(***************************************************************************)
(* Properties of ingestion                                                 *)
(***************************************************************************)
RECURSIVE FirstInsertions(_, _)
\* the rows left when only the first row of each transaction hash is kept
FirstInsertions(txs, acc) ==
    IF txs = <<>> THEN acc
    ELSE FirstInsertions(Tail(txs),
             IF Head(txs).tx_hash \in StoredHashes(acc) THEN acc
             ELSE Append(acc, Head(txs)))

\* C1: processing an event whose transaction hash is already stored changes
\* no stored fact: the store holds one row per hash, and the transaction
\* count, volume, unique counterparties and reputation score of every
\* address are what the first insertions alone give.
C1_ReplayIsNoOp ==
    LET once == FirstInsertions(transactions, <<>>)
    IN /\ Len(transactions) = Len(once)
       /\ \A a \in Addresses :
            /\ ServiceMetrics(transactions, a) = ServiceMetrics(once, a)
            /\ AgentMetrics(transactions, a) = AgentMetrics(once, a)
            /\ calculateServiceReputation(transactions, fraudFlags, now, a)
                 = calculateServiceReputation(once, fraudFlags, now, a)
            /\ calculateAgentReputation(transactions, now, a)
                 = calculateAgentReputation(once, now, a)
            /\ serviceReputation[a] # Absent =>
                 serviceReputation[a].total <= ServiceMetrics(once, a).total_transactions
            /\ agentReputation[a] # Absent =>
                 agentReputation[a].total <= AgentMetrics(once, a).total_payments

\* a poll has saved the same payment twice (block 1 and block 2 both carry
\* h1) and the store holds it once
C1_Witness ==
    /\ enhanced.stats.transactionsSaved = 2
    /\ Len(transactions) = 1
    /\ serviceReputation["s1"] # Absent
    /\ serviceReputation["s1"].total = 1

\* C9: every stored transaction was authorized by a facilitator of the
\* recognized list, on every ingestion path.
C9_OnlyRecognizedFacilitators ==
    \A i \in 1..Len(transactions) :
       toLowerCase(transactions[i].facilitator_address) \in Range(getAllFacilitators)

\* C10: a malformed event or a failure while one event is processed does
\* not end the loop over the events of the range (every event the poll
\* found was handled), and a step that processes events leaves the
\* indexer running and its timer and listener in place.
C10_EventFailureIsolated ==
    [][/\ enhanced'.lastPoll.processed = enhanced'.lastPoll.found
       /\ x402'.lastPoll.processed = x402'.lastPoll.found
       /\ (enhanced'.lastPoll # enhanced.lastPoll \/ x402'.lastPoll # x402.lastPoll
           \/ storeVars' # storeVars)
          => /\ enhanced'.isRunning = enhanced.isRunning
             /\ enhanced'.pollingInterval = enhanced.pollingInterval
             /\ x402'.isRunning = x402.isRunning
             /\ x402'.pollingInterval = x402.pollingInterval
             /\ x402'.eventListener = x402.eventListener]_vars

\* a poll met a malformed event and a failing save or reputation update,
\* handled every event of its range and the indexer is still polling
C10_Witness ==
    /\ enhanced.lastPoll.failed = 2
    /\ enhanced.lastPoll.found = 4
    /\ enhanced.lastPoll.processed = 4
    /\ enhanced.isRunning
    /\ enhanced.pollingInterval

(***************************************************************************)
(* Properties of the reputation scorers                                    *)
(***************************************************************************)
ReputationRequests == {"GET /service", "GET /agent"}

Quiescent ==
    /\ enhanced.inFlight = {}
    /\ sweep.scoreUpdate.pc \in {"idle", "done", "aborted"}

ServiceReflected(a) ==
    LET metrics == ServiceMetrics(transactions, a)
    IN metrics.total_transactions > 0 =>
          /\ serviceReputation[a] # Absent
          /\ serviceReputation[a].total = metrics.total_transactions
          /\ serviceReputation[a].volume = metrics.total_volume
          /\ serviceReputation[a].unique = metrics.unique_payers
          /\ serviceReputation[a].activeFraudFlags = Len(getFraudFlags(fraudFlags, a, FALSE))

AgentReflected(a) ==
    LET metrics == AgentMetrics(transactions, a)
    IN metrics.total_payments > 0 =>
          /\ agentReputation[a] # Absent
          /\ agentReputation[a].total = metrics.total_payments
          /\ agentReputation[a].volume = metrics.total_spent
          /\ agentReputation[a].unique = metrics.unique_services

WithTransaction(metrics, amount, newPayer, stamp) ==
    [total_transactions |-> metrics.total_transactions + 1,
     total_volume |-> metrics.total_volume + amount,
     unique_payers |-> metrics.unique_payers + (IF newPayer THEN 1 ELSE 0),
     first_seen |-> IF metrics.total_transactions = 0 THEN stamp
                    ELSE Min(metrics.first_seen, stamp),
     last_active |-> IF metrics.total_transactions = 0 THEN stamp
                     ELSE Max(metrics.last_active, stamp)]

\* the score of s1 at EvalTime over the metrics and the flags table given
ScoreOver(metrics, flags) ==
    ServiceSnapshot("s1", metrics, getFraudFlags(flags, "s1", FALSE),
                    EvalTime).reputationScore

\* the transactions and the flags that can be added
AddedAmounts == {1, 1000}
AddedStamps == {EvalTime - 10 * DaySeconds, EvalTime}
AddedFlags == {[serviceAddress |-> "s1", flagType |-> BasicRules[i],
                severity |-> RuleSeverity(BasicRules[i])] : i \in 1..Len(BasicRules)}

\* adding a transaction does not lower the score just computed and adding
\* an active flag does not raise it
MonotoneHere ==
    /\ \A amount \in AddedAmounts, newPayer \in BOOLEAN, stamp \in AddedStamps :
          (newPayer \/ lastRead.metrics.total_transactions > 0) =>
             ScoreOver(WithTransaction(lastRead.metrics, amount, newPayer, stamp),
                       fraudFlags) >= lastRead.value.reputationScore
    /\ \A flag \in AddedFlags :
          ScoreOver(lastRead.metrics, saveFraudFlag(fraudFlags, flag))
             <= lastRead.value.reputationScore

\* C14 (as claimed): at a fixed evaluation time, adding a transaction to an
\* address's history never lowers its service score and adding an active
\* flag never raises it.
C14_Monotone ==
    lastRead.call = "calculateServiceReputation" => MonotoneHere

\* C14 (amended): at a fixed evaluation time, adding a transaction to the
\* history of an address that already has at least one never lowers its
\* service score, and adding an active flag never raises it.
C14_MonotoneOnceScored ==
    (/\ lastRead.call = "calculateServiceReputation"
     /\ lastRead.metrics.total_transactions > 0) => MonotoneHere

\* a service with 50 transactions and an active flag was scored; one more
\* transaction raises the score and one more flag lowers it
C14_Witness ==
    /\ lastRead.call = "calculateServiceReputation"
    /\ lastRead.metrics.total_transactions = 50
    /\ lastRead.value.activeFraudFlags = 1
    /\ ScoreOver(WithTransaction(lastRead.metrics, 1000, TRUE, EvalTime), fraudFlags)
          > lastRead.value.reputationScore
    /\ \E flag \in AddedFlags :
          ScoreOver(lastRead.metrics, saveFraudFlag(fraudFlags, flag))
             < lastRead.value.reputationScore

ScorerCalls == {"calculateServiceReputation", "calculateAgentReputation"}

\* an integer score from 0 to 100 with the trust level of its tier
WellTiered(snap) ==
    /\ snap.reputationScore \in 0..100
    /\ snap.trustLevel = "excellent" <=> snap.reputationScore >= 85
    /\ snap.trustLevel = "high" <=> snap.reputationScore \in 70..84
    /\ snap.trustLevel = "medium" <=> snap.reputationScore \in 50..69
    /\ snap.trustLevel = "low" <=> snap.reputationScore \in 30..49
    /\ snap.trustLevel = "untrusted" <=> snap.reputationScore < 30

ClaimedServiceScore(metrics, flags) ==
    LET unit == 90 * DaySeconds
        count == IF metrics.total_transactions >= 100 THEN 30 * unit
                 ELSE metrics.total_transactions * 30 * (unit \div 100)
        volume == IF metrics.total_volume >= 1000 THEN 20 * unit
                  ELSE metrics.total_volume * 20 * (unit \div 1000)
        payers == IF metrics.unique_payers >= 50 THEN 15 * unit
                  ELSE metrics.unique_payers * 15 * (unit \div 50)
        age == Min(15 * unit, 15 * (EvalTime - metrics.first_seen))
        recency == IF EvalTime - metrics.last_active < 7 * DaySeconds THEN 10
                   ELSE IF EvalTime - metrics.last_active < 30 * DaySeconds THEN 5
                   ELSE 0
        penalty == 3 * (ActivePenalty(flags, "s1") \div 10)
        sum == count + volume + payers + age + (recency - penalty) * unit
    IN Max(0, Min(100, (2 * sum + unit) \div (2 * unit)))

C17_NeutralDefault ==
    /\ (/\ lastRead.call = "calculateServiceReputation"
        /\ lastRead.metrics.total_transactions = 0)
       => /\ lastRead.value.reputationScore = 50
          /\ lastRead.value.trustLevel = "medium"
          /\ lastRead.value.badges = <<"NEW">>
    /\ (/\ lastRead.call = "calculateAgentReputation"
        /\ lastRead.metrics.total_payments = 0)
       => /\ lastRead.value.reputationScore = 50
          /\ lastRead.value.trustLevel = "medium"
          /\ lastRead.value.badges = <<"NEW">>

\* a service without transactions and with two active flags was scored: the
\* neutral snapshot came back
C17_Witness ==
    /\ lastRead.call = "calculateServiceReputation"
    /\ lastRead.metrics.total_transactions = 0
    /\ Cardinality(ActiveSeverities(fraudFlags, "s1")) = 2
    /\ lastRead.value.reputationScore = 50
    /\ serviceReputation["s1"] = Absent

ClaimedAgentScore(metrics) ==
    LET unit == 90 * DaySeconds
        age == EvalTime - metrics.first_payment
        count == IF metrics.total_payments >= 100 THEN 25 * unit
                 ELSE metrics.total_payments * 25 * (unit \div 100)
        spent == IF metrics.total_spent >= 1000 THEN 20 * unit
                 ELSE metrics.total_spent * 20 * (unit \div 1000)
        services == IF metrics.unique_services >= 20 THEN 15 * unit
                    ELSE metrics.unique_services * 15 * (unit \div 20)
        recency == IF EvalTime - metrics.last_payment < 7 * DaySeconds THEN 15
                   ELSE IF EvalTime - metrics.last_payment < 30 * DaySeconds THEN 10
                   ELSE 5
        tenths == IF age < metrics.total_payments * DaySeconds THEN 100
                  ELSE IF age < 7 * metrics.total_payments * DaySeconds THEN 90
                  ELSE IF age < 30 * metrics.total_payments * DaySeconds THEN 75
                  ELSE 50
        sum == count + spent + services + Min(15 * unit, 15 * age)
               + recency * unit + tenths * (unit \div 10)
    IN Max(0, Min(100, (2 * sum + unit) \div (2 * unit)))

C19_AssessFormula ==
    lastRead.call = "checkTrustCompatibility" =>
       LET r == lastRead.value
           flagged == \E i \in 1..Len(fraudFlags) :
                         /\ fraudFlags[i].service_address = r.service.address
                         /\ ~fraudFlags[i].is_resolved
           far == r.service.score - r.agent.score > 30
                  \/ r.agent.score - r.service.score > 30
           halves == r.service.score + r.agent.score
                     - (IF far THEN 20 ELSE 0) - (IF flagged THEN 40 ELSE 0)
           clamped == IF halves < 0 THEN 0 ELSE IF halves > 200 THEN 200 ELSE halves
       IN /\ 2 * r.compatibility.score \in {clamped, clamped + 1}
          /\ r.compatibility.recommended <=> (r.compatibility.score >= 60 /\ ~flagged)
          /\ r.compatibility.riskLevel =
                IF r.compatibility.score < 40 \/ flagged THEN "high"
                ELSE IF r.compatibility.score < 60 THEN "medium" ELSE "low"

\* C20: a call of the matcher leaves the reputation snapshots, the flags and
\* the transactions as they were.
C20_AssessWritesNothing ==
    [][lastRead'.call = "checkTrustCompatibility" =>
          /\ serviceReputation' = serviceReputation
          /\ agentReputation' = agentReputation
          /\ fraudFlags' = fraudFlags
          /\ transactions' = transactions]_vars

\* C21: the read paths write nothing: a getFraudScore or analyzeFraudPatterns
\* call runs no detector, adds no flag, sends no alert and overwrites no
\* snapshot, so the flags and the fraud score of every address are after the
\* call what they were before it.
C21_ReadPathsWriteNothing ==
    [][lastRead'.call \in {"getFraudScore", "analyzeFraudPatterns"} =>
          /\ fraudFlags' = fraudFlags
          /\ alerts' = alerts
          /\ webhookStats' = webhookStats
          /\ lastRun' = lastRun
          /\ serviceReputation' = serviceReputation
          /\ agentReputation' = agentReputation
          /\ transactions' = transactions
          /\ \A a \in ScannedServices :
                getFraudScore(fraudFlags', a) = getFraudScore(fraudFlags, a)]_vars

\* an analysis that found patterns for a service whose fraud score is
\* lowered by a stored flag
C21_Witness ==
    /\ lastRead.call = "analyzeFraudPatterns"
    /\ lastRead.value.summary.totalPatterns >= 2
    /\ getFraudScore(fraudFlags, lastRead.address).score < 100

\* C22: every finding carries an integer severity from 1 to 10: the patterns
\* the analysis returns and the flags stored by the aggregator.
C22_SeverityInRange ==
    /\ lastRead.call = "analyzeFraudPatterns" =>
          \A i \in 1..Len(lastRead.value.patterns) :
             lastRead.value.patterns[i].severity \in 1..10
    /\ \A i \in 1..Len(fraudFlags) : fraudFlags[i].severity \in 1..10

C27_FailedBlockRechecked ==
    [][LET missed(from, to, facilitators, txs) ==
              \E b \in from..to : \E i \in 1..Len(chain[b].logs) :
                 /\ ~chain[b].logs[i].malformed
                 /\ toLowerCase(chain[b].logs[i].authorizer) \in Range(facilitators)
                 /\ chain[b].logs[i].transactionHash \notin StoredHashes(txs)
       IN /\ (/\ enhanced'.stats.totalBlocksChecked > enhanced.stats.totalBlocksChecked
               /\ enhanced'.lastPoll.failed = 0)
              => ~missed(enhanced.lastCheckedBlock + 1, enhanced'.lastCheckedBlock,
                         enhanced.facilitators, transactions')
          /\ (/\ x402.timers > 0
               /\ x402'.lastCheckedBlock > x402.lastCheckedBlock
               /\ x402'.lastPoll.failed = 0)
              => ~missed(x402.lastCheckedBlock + 1, x402'.lastCheckedBlock,
                         x402.facilitators, transactions')]_vars

\* C28: the block cursor lastCheckedBlock of either indexer never decreases,
\* whatever the interleaving of polls, backfill, starts and stops.
C28_CursorNeverDecreases ==
    [][/\ enhanced'.lastCheckedBlock >= enhanced.lastCheckedBlock
       /\ x402'.lastCheckedBlock >= x402.lastCheckedBlock]_vars

\* C29: each indexer has at most one active polling timer or event
\* listener, and none at all while isRunning is false; a start call of an
\* indexer that is running changes nothing.
C29_OneTimerOrListener ==
    LET active(timers, listener) == timers + (IF listener THEN 1 ELSE 0)
        enhancedActive == active(IF enhanced.pollingInterval THEN 1 ELSE 0, FALSE)
        x402Active == active(x402.timers, x402.eventListener)
    IN /\ enhancedActive <= 1
       /\ x402Active <= 1
       /\ ~enhanced.isRunning => enhancedActive = 0
       /\ ~x402.isRunning => x402Active = 0

\* C30: retryCount never exceeds maxRetries, and it goes back to 0 only in
\* a step that leaves a listener registered or leaves the indexer stopped
\* (isRunning false, no listener).
C30_BoundedRecovery ==
    [][/\ x402'.retryCount <= maxRetries
       /\ (x402.retryCount > 0 /\ x402'.retryCount = 0)
            => \/ x402'.eventListener
               \/ ~x402'.isRunning /\ ~x402'.eventListener]_vars

\* the requests the limiter let through at the instants i..j
RECURSIVE PassedBetween(_, _, _)
PassedBetween(passed, i, j) ==
    IF i > j THEN 0 ELSE passed[i] + PassedBetween(passed, i + 1, j)

C24_NonceGrantsOnce ==
    [][/\ api'.served.paid <= 1
       /\ api'.used_nonces # api.used_nonces
            => api'.served.paid = api.served.paid + 1]_vars

\* C25: a wallet is served free at most monthlyLimit times; a request is
\* served free only while the wallet's recorded usage is below the limit,
\* and each free access adds one to the recorded usage.
C25_FreeTierBounded ==
    [][/\ api'.served.free <= monthlyLimit
       /\ api'.served.free > api.served.free
            => /\ api.usage["w1"] < monthlyLimit
               /\ api'.usage["w1"] = api.usage["w1"] + 1]_vars

====
